---- MODULE Spec2Model ----
(***************************************************************************)
(* Model of the release-data cache of the contributor website              *)
(* (package scraper, src/scraper/scraper.go): the version catalog, the     *)
(* release map, the two reader/writer locks, the background Refresh loop   *)
(* and the request-time entry points that run concurrently with it.        *)
(*                                                                         *)
(* Strings the code takes apart (version identifiers, file names) are      *)
(* sequences of one-character strings, so that TrimPrefix, SplitN, Atoi    *)
(* and the file-name pattern are computed as the code computes them.       *)
(***************************************************************************)
EXTENDS Integers, Sequences, FiniteSets, TLC

(***************************************************************************)
(* Strings                                                                 *)
(***************************************************************************)
Digits == {"0", "1", "2", "3", "4", "5", "6", "7", "8", "9"}

DigitVal(c) ==
    CASE c = "0" -> 0 [] c = "1" -> 1 [] c = "2" -> 2 [] c = "3" -> 3
      [] c = "4" -> 4 [] c = "5" -> 5 [] c = "6" -> 6 [] c = "7" -> 7
      [] c = "8" -> 8 [] c = "9" -> 9

\* strings.HasPrefix
HasPrefix(s, p) == Len(s) >= Len(p) /\ SubSeq(s, 1, Len(p)) = p

\* strings.HasSuffix
HasSuffix(s, p) == Len(s) >= Len(p) /\ SubSeq(s, Len(s) - Len(p) + 1, Len(s)) = p

\* strings.TrimPrefix
TrimPrefix(s, p) == IF HasPrefix(s, p) THEN SubSeq(s, Len(p) + 1, Len(s)) ELSE s

\* strings.Index for a one-character separator: the first position, 0 if none
IndexChar(s, c) ==
    IF \E i \in 1..Len(s) : s[i] = c
    THEN CHOOSE i \in 1..Len(s) : s[i] = c /\ \A j \in 1..(i - 1) : s[j] # c
    ELSE 0

\* strings.SplitN(s, sep, 2)
SplitN2(s, c) ==
    LET i == IndexChar(s, c)
    IN  IF i = 0 THEN <<s>>
        ELSE <<SubSeq(s, 1, i - 1), SubSeq(s, i + 1, Len(s))>>

\* strings.Replace(s, old, new, 1) for one-character old and new
ReplaceFirst(s, old, new) ==
    LET i == IndexChar(s, old)
    IN  IF i = 0 THEN s ELSE [s EXCEPT ![i] = new]

IsDigits(s) == Len(s) > 0 /\ \A i \in 1..Len(s) : s[i] \in Digits

RECURSIVE DigitsValue(_)
DigitsValue(s) ==
    IF Len(s) = 0 THEN 0
    ELSE 10 * DigitsValue(SubSeq(s, 1, Len(s) - 1)) + DigitVal(s[Len(s)])

\* strconv.Atoi with the error dropped (major, _ := ...): an optional sign and
\* decimal digits give the number, anything else gives 0.  The values of the
\* model stay far below the 64-bit range, where Atoi would saturate.
Atoi(s) ==
    IF IsDigits(s) THEN DigitsValue(s)
    ELSE IF Len(s) > 1 /\ s[1] = "+" /\ IsDigits(Tail(s)) THEN DigitsValue(Tail(s))
    ELSE IF Len(s) > 1 /\ s[1] = "-" /\ IsDigits(Tail(s)) THEN 0 - DigitsValue(Tail(s))
    ELSE 0

\* strings.ToLower, on the ASCII letters handles are made of
UpperLetters == <<"A", "B", "C", "D", "E", "F", "G", "H", "I", "J", "K", "L", "M",
                  "N", "O", "P", "Q", "R", "S", "T", "U", "V", "W", "X", "Y", "Z">>
LowerLetters == <<"a", "b", "c", "d", "e", "f", "g", "h", "i", "j", "k", "l", "m",
                  "n", "o", "p", "q", "r", "s", "t", "u", "v", "w", "x", "y", "z">>

LowerOf(c) ==
    IF \E i \in 1..26 : UpperLetters[i] = c
    THEN LowerLetters[CHOOSE i \in 1..26 : UpperLetters[i] = c]
    ELSE c

ToLower(s) == [i \in 1..Len(s) |-> LowerOf(s[i])]

\* strings.Contains(s, sub); the empty string is contained in every string
Contains(s, sub) ==
    \E i \in 0..(Len(s) - Len(sub)) : SubSeq(s, i + 1, i + Len(sub)) = sub

\* strings.EqualFold, on ASCII: equal up to the case of letters
EqualFold(a, b) ==
    /\ Len(a) = Len(b)
    /\ \A i \in 1..Len(a) : LowerOf(a[i]) = LowerOf(b[i])

(***************************************************************************)
(* Version identifiers                                                     *)
(***************************************************************************)
\* The weight of the major component in versionNumber
MajorWeight == 10000

versionNumber(id) ==
    LET s == TrimPrefix(id, <<"v">>)
        parts == SplitN2(s, "_")
    IN  IF Len(parts) # 2 THEN 0
        ELSE Atoi(parts[1]) * MajorWeight + Atoi(parts[2])

\* display := strings.Replace(strings.TrimPrefix(id, "v"), "_", ".", 1)
displayOf(id) == ReplaceFirst(TrimPrefix(id, <<"v">>), "_", ".")

VersionInfo(id) == [ID |-> id, Display |-> displayOf(id)]

toVersionInfos(ids) == [i \in 1..Len(ids) |-> VersionInfo(ids[i])]

fallbackVersions ==
    << <<"v", "1", "_", "1", "0", "9">>, <<"v", "1", "_", "1", "0", "8">>,
       <<"v", "1", "_", "1", "0", "7">>, <<"v", "1", "_", "1", "0", "6">>,
       <<"v", "1", "_", "1", "0", "5">> >>

prefetchCount == 5

\* The (major, minor) pair of an identifier v<major>_<minor>, each component
\* read as a decimal number.
MajorOf(id) == Atoi(SplitN2(TrimPrefix(id, <<"v">>), "_")[1])
MinorOf(id) ==
    LET parts == SplitN2(TrimPrefix(id, <<"v">>), "_")
    IN  IF Len(parts) = 2 THEN Atoi(parts[2]) ELSE 0

\* a is newer than b in the (major, minor) order
PairGreater(a, b) ==
    \/ MajorOf(a) > MajorOf(b)
    \/ MajorOf(a) = MajorOf(b) /\ MinorOf(a) > MinorOf(b)

(***************************************************************************)
(* Version discovery                                                       *)
(***************************************************************************)
MdSuffix == <<".", "m", "d">>

\* versionFileRe = ^(v\d+_\d+)\.md$ : the identifier of a matching file name,
\* the empty string for a file name that does not match.
versionFileMatch(name) ==
    IF ~HasSuffix(name, MdSuffix) THEN <<>>
    ELSE LET id == SubSeq(name, 1, Len(name) - 3)
             rest == TrimPrefix(id, <<"v">>)
             parts == SplitN2(rest, "_")
         IN  IF /\ HasPrefix(id, <<"v">>)
                /\ Len(parts) = 2
                /\ IsDigits(parts[1])
                /\ IsDigits(parts[2])
             THEN id ELSE <<>>

\* The loop of discoverVersions over the listing's entries, in listing order.
RECURSIVE matchedVersions(_)
matchedVersions(entries) ==
    IF Len(entries) = 0 THEN <<>>
    ELSE LET id == versionFileMatch(Head(entries))
             more == matchedVersions(Tail(entries))
         IN  IF id = <<>> THEN more ELSE <<VersionInfo(id)>> \o more

\* The comparison handed to sort.Slice
sortLess(a, b) == versionNumber(a.ID) > versionNumber(b.ID)

IsSortedBy(s) == \A i \in 1..(Len(s) - 1) : ~sortLess(s[i + 1], s[i])

Perms(s) ==
    {p \in [1..Len(s) -> 1..Len(s)] : \A i, j \in 1..Len(s) : i # j => p[i] # p[j]}

\* sort.Slice is not stable: every arrangement of the slice that is ordered
\* by the comparison is a possible result.
sortSlice(s) ==
    {t \in {[i \in 1..Len(s) |-> s[p[i]]] : p \in Perms(s)} : IsSortedBy(t)}

\* The successful results of discoverVersions for one listing
discoverVersions(entries) == sortSlice(matchedVersions(entries))

(***************************************************************************)
(* Release documents and the parser                                        *)
(*                                                                         *)
(* A document is the sequence of its lines.  A line is a record whose      *)
(* kind says which of the parser's patterns the line matches (the patterns *)
(* exclude one another):                                                   *)
(*   "prsection"  starts with "### Pull Requests"                          *)
(*   "h2"         starts with "## "                                        *)
(*   "repo"       matches repoSectionRe                                    *)
(*   "contrib"    matches contribLineRe: text is the link text after "@",  *)
(*                user the last segment of the profile URL, items the rest *)
(*   "sub"        matches subItemRe: items is the text after the bullet    *)
(*   "text"       any other line                                           *)
(* items is the line's remaining text cut into tokens: a piece of text     *)
(* [s], or a PR link [number, path, pull] for                              *)
(* [PR #number](https://github.com/path/pull/pull).                        *)
(***************************************************************************)
IsLink(tok) == DOMAIN tok = {"number", "path", "pull"}

Txt(s) == [s |-> s]

\* A run of white space, and the colon that follows a contributor link
Space == Txt(" ")
Colon == Txt(":")

\* pm[2]: the URL of a PR link
LinkURL(tok) == <<"https://github.com/", tok.path, "/pull/", tok.pull>>

\* strings.TrimSpace over tokens
RECURSIVE TrimLeft(_)
TrimLeft(toks) ==
    IF Len(toks) > 0 /\ Head(toks) = Space THEN TrimLeft(Tail(toks)) ELSE toks

RECURSIVE TrimRight(_)
TrimRight(toks) ==
    IF Len(toks) > 0 /\ toks[Len(toks)] = Space
    THEN TrimRight(SubSeq(toks, 1, Len(toks) - 1)) ELSE toks

TrimSpace(toks) == TrimRight(TrimLeft(toks))

\* strings.Index(text, prLink): the first occurrence of the link, 0-based;
\* -1 if there is none
linkIndex(text, prLink) ==
    IF \E i \in 1..Len(text) : text[i] = prLink
    THEN (CHOOSE i \in 1..Len(text) :
              text[i] = prLink /\ \A j \in 1..(i - 1) : text[j] # prLink) - 1
    ELSE 0 - 1

extractDescription(text, prLink) ==
    LET idx == linkIndex(text, prLink)
    IN  IF idx <= 0 THEN <<>>
        ELSE TrimSpace(TrimPrefix(TrimPrefix(TrimSpace(SubSeq(text, 1, idx)),
                                             <<Colon, Space>>), <<Colon>>))

\* prLinkRe.FindAllStringSubmatch: the links of a text, in order
linksOf(text) == SelectSeq(text, IsLink)

\* The PR records of one line's text
prsOf(text) ==
    LET ls == linksOf(text)
    IN  [i \in 1..Len(ls) |->
            [Title |-> extractDescription(text, ls[i]),
             URL |-> LinkURL(ls[i]),
             Repo |-> ls[i].path,
             Number |-> ls[i].number]]

\* name := githubUser, or the parenthetical part of the link text
contribName(line) ==
    IF line.paren = <<>> THEN line.user ELSE line.paren[1]

\* Faulty variant of newContributor: the display name is always the handle
newContributorHandleName(line) ==
    [Name |-> line.user,
     GitHubUser |-> line.user,
     AvatarURL |-> <<"https://github.com/", line.user, ".png?size=80">>,
     PRs |-> prsOf(line.items)]

newContributor(line) ==
    [Name |-> contribName(line),
     GitHubUser |-> line.user,
     AvatarURL |-> <<"https://github.com/", line.user, ".png?size=80">>,
     PRs |-> prsOf(line.items)]

RECURSIVE parseLines(_, _, _, _, _)

\* Faulty variant of parseLines: a "## " heading does not end the scan
RECURSIVE parseLinesPastHeading(_, _, _, _, _)
parseLinesPastHeading(lines, i, inPRSection, cs, cur) ==
    IF i > Len(lines) THEN cs
    ELSE LET line == lines[i]
         IN  IF line.kind = "prsection"
               THEN parseLinesPastHeading(lines, i + 1, TRUE, cs, cur)
             ELSE IF ~inPRSection
               THEN parseLinesPastHeading(lines, i + 1, inPRSection, cs, cur)
             ELSE IF line.kind = "repo"
               THEN parseLinesPastHeading(lines, i + 1, inPRSection, cs, 0)
             ELSE IF line.kind = "contrib"
               THEN parseLinesPastHeading(lines, i + 1, inPRSection,
                               Append(cs, newContributor(line)), Len(cs) + 1)
             ELSE IF cur # 0 /\ line.kind = "sub"
               THEN parseLinesPastHeading(lines, i + 1, inPRSection,
                               [cs EXCEPT ![cur].PRs = @ \o prsOf(line.items)], cur)
             ELSE parseLinesPastHeading(lines, i + 1, inPRSection, cs, cur)

\* Faulty variant of parseLines: a repo-section heading keeps currentContrib
RECURSIVE parseLinesKeepCurrent(_, _, _, _, _)
parseLinesKeepCurrent(lines, i, inPRSection, cs, cur) ==
    IF i > Len(lines) THEN cs
    ELSE LET line == lines[i]
         IN  IF line.kind = "prsection"
               THEN parseLinesKeepCurrent(lines, i + 1, TRUE, cs, cur)
             ELSE IF ~inPRSection
               THEN parseLinesKeepCurrent(lines, i + 1, inPRSection, cs, cur)
             ELSE IF line.kind = "h2"
               THEN cs
             ELSE IF line.kind = "contrib"
               THEN parseLinesKeepCurrent(lines, i + 1, inPRSection,
                               Append(cs, newContributor(line)), Len(cs) + 1)
             ELSE IF cur # 0 /\ line.kind = "sub"
               THEN parseLinesKeepCurrent(lines, i + 1, inPRSection,
                               [cs EXCEPT ![cur].PRs = @ \o prsOf(line.items)], cur)
             ELSE parseLinesKeepCurrent(lines, i + 1, inPRSection, cs, cur)

\* The loop of parseMarkdown from line i on: cs is release.Contributors,
\* cur the index currentContrib points at (0 for nil).
parseLines(lines, i, inPRSection, cs, cur) ==
    IF i > Len(lines) THEN cs
    ELSE LET line == lines[i]
         IN  IF line.kind = "prsection"
               THEN parseLines(lines, i + 1, TRUE, cs, cur)
             ELSE IF ~inPRSection
               THEN parseLines(lines, i + 1, inPRSection, cs, cur)
             ELSE IF line.kind = "h2"
               THEN cs
             ELSE IF line.kind = "repo"
               THEN parseLines(lines, i + 1, inPRSection, cs, 0)
             ELSE IF line.kind = "contrib"
               THEN parseLines(lines, i + 1, inPRSection,
                               Append(cs, newContributor(line)), Len(cs) + 1)
             ELSE IF cur # 0 /\ line.kind = "sub"
               THEN parseLines(lines, i + 1, inPRSection,
                               [cs EXCEPT ![cur].PRs = @ \o prsOf(line.items)], cur)
             ELSE parseLines(lines, i + 1, inPRSection, cs, cur)

\* Faulty variant of parseMarkdown: Version holds the display name
parseMarkdownVersionDisplay(version, md) ==
    [Version |-> displayOf(version),
     DisplayName |-> displayOf(version),
     Contributors |-> parseLines(md, 1, FALSE, <<>>, 0)]

\* Faulty variant of parseMarkdown: text with no pull-request section gives
\* the zero Release
parseMarkdownNeedsSection(version, md) ==
    IF \E i \in 1..Len(md) : md[i].kind = "prsection"
    THEN [Version |-> version,
          DisplayName |-> displayOf(version),
          Contributors |-> parseLines(md, 1, FALSE, <<>>, 0)]
    ELSE [Version |-> <<>>, DisplayName |-> <<>>, Contributors |-> <<>>]

parseMarkdown(version, md) ==
    [Version |-> version,
     DisplayName |-> displayOf(version),
     Contributors |-> parseLines(md, 1, FALSE, <<>>, 0)]

(***************************************************************************)
(* The two remote endpoints                                                *)
(***************************************************************************)
V1_109 == <<"v", "1", "_", "1", "0", "9">>
V1_108 == <<"v", "1", "_", "1", "0", "8">>
V1_9 == <<"v", "1", "_", "9">>
V1_10 == <<"v", "1", "_", "1", "0">>
V2_0 == <<"v", "2", "_", "0">>
V1_10001 == <<"v", "1", "_", "1", "0", "0", "0", "1">>

FileOf(id) == id \o MdSuffix

Readme == <<"R", "E", "A", "D", "M", "E", ".", "m", "d">>
Images == <<"i", "m", "a", "g", "e", "s">>

\* The listings the listing endpoint may answer with: the release-notes
\* directory at different times.
Listings ==
    { <<Images, Readme>>,
      <<Readme, FileOf(V1_9), FileOf(V1_10), FileOf(V1_109)>>,
      <<FileOf(V1_10001), FileOf(V2_0)>> }

\* Versions only requests ask for: no listing names them
V1_110 == <<"v", "1", "_", "1", "1", "0">>
V1_10002 == <<"v", "1", "_", "1", "0", "0", "0", "2">>
V2_1 == <<"v", "2", "_", "1">>

\* Handles and display names the documents use
HAlice == <<"a", "l", "i", "c", "e">>
HAliceCap == <<"A", "l", "i", "c", "e">>
HAlice99 == <<"A", "L", "I", "C", "E", "9", "9">>
HBob == <<"B", "o", "b">>
NAliceA == <<"A", "l", "i", "c", "e", " ", "A", ".">>

Line(k) == [kind |-> k, user |-> <<>>, paren |-> <<>>, items |-> <<>>]

PRLink(n) == [number |-> n, path |-> "microsoft/vscode", pull |-> n]

\* A document with no pull-request section
DocNoSection == <<Line("text"), Line("h2"), Line("text")>>

\* A document whose section names one contributor with one PR
DocAlice ==
    << Line("text"), Line("prsection"), Line("repo"),
       [kind |-> "contrib", user |-> HAlice, paren |-> <<NAliceA>>,
        items |-> <<Colon, Space, Txt("fixed bug"), Space, PRLink("42")>>],
       Line("h2") >>

\* The same release notes after an edit upstream: a second contributor
DocAliceBob ==
    << Line("text"), Line("prsection"), Line("repo"),
       [kind |-> "contrib", user |-> HAlice, paren |-> <<NAliceA>>,
        items |-> <<Colon, Space, Txt("fixed bug"), Space, PRLink("42")>>],
       [kind |-> "contrib", user |-> HBob, paren |-> <<>>, items |-> <<>>],
       [kind |-> "sub", user |-> <<>>, paren |-> <<>>,
        items |-> <<Txt("docs"), Space, PRLink("7")>>],
       Line("h2") >>

\* A document that lists one person under two repositories, with handles in
\* different letter case, and a second handle that contains the first
DocTwice ==
    << Line("prsection"), Line("repo"),
       [kind |-> "contrib", user |-> HAliceCap, paren |-> <<>>,
        items |-> <<Colon, Space, Txt("a"), Space, PRLink("1"), Txt(","), Space,
                    Txt("b"), Space, PRLink("2")>>],
       Line("repo"),
       [kind |-> "contrib", user |-> HAlice, paren |-> <<NAliceA>>,
        items |-> <<Colon, Space, Txt("c"), Space, PRLink("3")>>],
       [kind |-> "contrib", user |-> HAlice99, paren |-> <<>>,
        items |-> <<Colon, Space, Txt("d"), Space, PRLink("4"), Space, PRLink("5")>>],
       Line("h2") >>

\* Two versions whose release notes thank many contributors
V1_111 == <<"v", "1", "_", "1", "1", "1">>
V1_112 == <<"v", "1", "_", "1", "1", "2">>

DigitChars == <<"0", "1", "2", "3", "4", "5", "6", "7", "8", "9">>

\* The k-th handle of the long documents, k < 100
ManyHandle(k) == <<"u", DigitChars[(k \div 10) + 1], DigitChars[(k % 10) + 1]>>

\* The PR numbers the long documents link to
ManyNumbers ==
    << "1", "2", "3", "4", "5", "6", "7", "8", "9", "10", "11", "12",
       "13", "14", "15", "16", "17", "18", "19", "20", "21", "22", "23",
       "24", "25", "26", "27", "28", "29", "30", "31", "32", "33", "34",
       "35", "36", "37", "38", "39", "40", "41", "42", "43", "44", "45",
       "46", "47", "48", "49", "50", "51" >>

\* The k-th contributor line of the long documents: links to the first k PRs
ManyLine(k) ==
    [kind |-> "contrib", user |-> ManyHandle(k), paren |-> <<>>,
     items |-> <<Colon>> \o [j \in 1..(2 * k) |->
                                IF j % 2 = 1 THEN Space
                                ELSE PRLink(ManyNumbers[j \div 2])]]

\* A document whose section names the contributors from the lo-th to the
\* hi-th, the k-th with k PRs
DocMany(lo, hi) ==
    <<Line("prsection"), Line("repo")>> \o [k \in 1..(hi - lo + 1) |-> ManyLine(lo + k - 1)]
        \o <<Line("h2")>>

\* The numbers of contributors two long documents may name between them:
\* about as many as the leaderboard shows
ManySizes == {49, 50, 51}

\* The bodies the document endpoint may answer with for a version; for every
\* other version it answers with a non-success status.
RemoteDocs(version) ==
    IF version = V1_109 THEN {DocAlice, DocAliceBob}
    ELSE IF version = V1_108 THEN {DocNoSection}
    ELSE IF version \in {V1_9, V1_10002, V2_1} THEN {DocAlice}
    ELSE IF version = V1_110 THEN {DocTwice}
    ELSE IF version = V1_111 THEN {DocMany(1, 25)}
    ELSE IF version = V1_112 THEN {DocMany(26, n) : n \in ManySizes}
    ELSE {}

\* The version arguments requests call GetRelease with
RequestIDs == {V1_109, V1_9}

\* The successful results of fetchRelease(version); the call may also fail
\* (transport error, non-200 status, unreadable body) for any version.
fetchRelease(version) == {parseMarkdown(version, d) : d \in RemoteDocs(version)}

discoverResults == UNION {discoverVersions(l) : l \in Listings}

(***************************************************************************)
(* State                                                                   *)
(***************************************************************************)
\* The number of request goroutines running beside the background task
NumClients == 1

\* The goroutine StartBackground starts
Background == 0
Clients == 1..NumClients
Procs == {Background} \cup Clients

VARIABLES
    availableVersions,  \* the catalog (guarded by versionsMu)
    cached,             \* the release map (guarded by mu)
    versionsMu,         \* [w, r]: the goroutines holding the lock / a read lock
    mu,
    kudosStore,         \* package web's kudos counters (guarded by kudosMu)
    kudosMu,
    pc,                 \* each goroutine's position
    loc,                \* each goroutine's local variables
    ret                 \* what the step just taken returned to its caller, if
                        \* that step was the return of a call

vars == <<availableVersions, cached, versionsMu, mu, kudosStore, kudosMu, pc, loc, ret>>

\* Release{}: the zero value
NoRelease == [Version |-> <<>>, DisplayName |-> <<>>, Contributors |-> <<>>]

\* A goroutine's locals: the call it runs (op), the call's argument and local
\* variables, and fetches, the number of fetchRelease calls it has made.
NoLoc == [op |-> "", version |-> <<>>, versions |-> <<>>, i |-> 0,
          r |-> NoRelease, err |-> FALSE, hasVersions |-> FALSE, fetches |-> 0,
          arg |-> <<>>, todo |-> {}, acc |-> <<>>, tab |-> "",
          method |-> "", count |-> 0, status |-> 0]

\* No call returned in the step just taken
NoProc == 0 - 1
NoRet == [p |-> NoProc, op |-> "", version |-> <<>>, rel |-> NoRelease,
          found |-> FALSE, list |-> <<>>, versions |-> <<>>, fetches |-> 0,
          arg |-> <<>>, out |-> <<>>]

Unlocked == [w |-> {}, r |-> {}]

\* The goroutines blocked in Lock().  A goroutine calls Lock in the step that
\* brings it to the lock's position (the statements before the call touch
\* nothing shared), and Lock returns in the step that leaves it.
WaitingForMu == {p \in DOMAIN pc : pc[p] \in {"gr_lock", "pf_lock", "lb_lock"}}
WaitingForVersionsMu == {p \in DOMAIN pc : pc[p] = "swap_lock"}

\* Faulty variant of CanRLock: a reader that does not wait for the writer
CanRLockIgnoringWriter(m, waiting) == TRUE

\* Faulty variant of CanLock: a writer that does not wait for the readers
CanLockIgnoringReaders(m) == m.w = {}

\* sync.RWMutex: RLock waits for the writer and, so that no writer starves,
\* for the goroutines blocked in Lock; Lock waits for the writer and the
\* readers
CanRLock(m, waiting) == m.w = {} /\ waiting = {}
CanLock(m) == m.w = {} /\ m.r = {}
RLock(m, p) == [m EXCEPT !.r = @ \cup {p}]
RUnlock(m, p) == [m EXCEPT !.r = @ \ {p}]
Lock(m, p) == [m EXCEPT !.w = {p}]
Unlock(m, p) == [m EXCEPT !.w = @ \ {p}]

\* StartBackground's goroutine has called Refresh, whose discoverVersions
\* request is in flight; no request has arrived yet.
Init ==
    /\ availableVersions = <<>>
    /\ cached = <<>>
    /\ versionsMu = Unlocked
    /\ mu = Unlocked
    /\ kudosStore = <<>>
    /\ kudosMu = Unlocked
    /\ pc = [p \in Procs |-> IF p = Background THEN "discover" ELSE "idle"]
    /\ loc = [p \in Procs |-> IF p = Background
                               THEN [NoLoc EXCEPT !.op = "Refresh"] ELSE NoLoc]
    /\ ret = NoRet

\* Faulty variant of mapStore: a map that keeps its newest entry only
mapStoreEvicting(m, version, rel) == [k \in {version} |-> rel]

\* cached[version] = rel
mapStore(m, version, rel) ==
    [k \in DOMAIN m \cup {version} |-> IF k = version THEN rel ELSE m[k]]

\* p moves to position next with locals l.
Jump(p, next, l) ==
    /\ pc' = [pc EXCEPT ![p] = next]
    /\ loc' = [loc EXCEPT ![p] = l]
    /\ ret' = NoRet

\* A step inside a call of package scraper or of LeaderboardHandler: neither
\* touches the kudos store.
Goto(p, next, l) ==
    /\ Jump(p, next, l)
    /\ UNCHANGED <<kudosStore, kudosMu>>

\* A call returns value: the goroutine is idle again (the background one
\* waits for its ticker) and its locals are dead.
Return(p, value) ==
    /\ pc' = [pc EXCEPT ![p] = IF p = Background THEN "tick" ELSE "idle"]
    /\ loc' = [loc EXCEPT ![p] = NoLoc]
    /\ ret' = [value EXCEPT !.p = p, !.op = loc[p].op, !.version = loc[p].version,
                            !.fetches = loc[p].fetches, !.arg = loc[p].arg]
    /\ UNCHANGED <<kudosStore, kudosMu>>

(***************************************************************************)
(* GetAvailableVersions                                                    *)
(***************************************************************************)
\* versionsMu.RLock()
GetAvailableVersionsRLock(p) ==
    /\ p \in Clients /\ pc[p] = "idle"
    /\ CanRLock(versionsMu, WaitingForVersionsMu)
    /\ versionsMu' = RLock(versionsMu, p)
    /\ Goto(p, "gav_read", [NoLoc EXCEPT !.op = "GetAvailableVersions"])
    /\ UNCHANGED <<availableVersions, cached, mu>>

\* return availableVersions, with the deferred versionsMu.RUnlock()
\* Faulty variant of GetAvailableVersionsRead: the catalog is handed over
\* and left empty
GetAvailableVersionsReadDrains(p) ==
    /\ pc[p] = "gav_read"
    /\ versionsMu' = RUnlock(versionsMu, p)
    /\ Return(p, [NoRet EXCEPT !.list = availableVersions])
    /\ availableVersions' = <<>>
    /\ UNCHANGED <<cached, mu>>

GetAvailableVersionsRead(p) ==
    /\ pc[p] = "gav_read"
    /\ versionsMu' = RUnlock(versionsMu, p)
    /\ Return(p, [NoRet EXCEPT !.list = availableVersions])
    /\ UNCHANGED <<availableVersions, cached, mu>>

(***************************************************************************)
(* GetRelease                                                              *)
(***************************************************************************)
\* mu.RLock()
GetReleaseRLock(p, version) ==
    /\ p # Background /\ pc[p] = "idle"
    /\ CanRLock(mu, WaitingForMu)
    /\ mu' = RLock(mu, p)
    /\ Goto(p, "gr_read", [NoLoc EXCEPT !.op = "GetRelease", !.version = version])
    /\ UNCHANGED <<availableVersions, cached, versionsMu>>

\* Faulty variant of GetReleaseRead: the map is not consulted, every call fetches
GetReleaseReadAlwaysFetch(p) ==
    /\ pc[p] = "gr_read"
    /\ mu' = RUnlock(mu, p)
    /\ Goto(p, "gr_fetch", [loc[p] EXCEPT !.fetches = @ + 1])
    /\ UNCHANGED <<availableVersions, cached, versionsMu>>

\* Faulty variant of GetReleaseRead: on a miss the read lock is kept over the fetch
GetReleaseReadKeepsLock(p) ==
    /\ pc[p] = "gr_read"
    /\ IF loc[p].version \in DOMAIN cached
       THEN /\ mu' = RUnlock(mu, p)
            /\ Return(p, [NoRet EXCEPT !.rel = cached[loc[p].version],
                                       !.found = TRUE])
       ELSE /\ mu' = mu
            /\ Goto(p, "gr_fetch", [loc[p] EXCEPT !.fetches = @ + 1])
    /\ UNCHANGED <<availableVersions, cached, versionsMu>>

\* r, ok := cached[version]; mu.RUnlock(); a hit returns r, true; a miss calls
\* fetchRelease, whose request is then in flight
GetReleaseRead(p) ==
    /\ pc[p] = "gr_read"
    /\ mu' = RUnlock(mu, p)
    /\ IF loc[p].version \in DOMAIN cached
       THEN Return(p, [NoRet EXCEPT !.rel = cached[loc[p].version], !.found = TRUE])
       ELSE Goto(p, "gr_fetch", [loc[p] EXCEPT !.fetches = @ + 1])
    /\ UNCHANGED <<availableVersions, cached, versionsMu>>

\* Faulty variant of GetReleaseFetchErr: the failure is remembered in the map
GetReleaseFetchErrStored(p) ==
    /\ pc[p] = "gr_fetch"
    /\ cached' = mapStore(cached, loc[p].version, NoRelease)
    /\ Return(p, NoRet)
    /\ UNCHANGED <<availableVersions, versionsMu, mu>>

\* fetchRelease(version) failed: log, return Release{}, false
GetReleaseFetchErr(p) ==
    /\ pc[p] = "gr_fetch"
    /\ Return(p, NoRet)
    /\ UNCHANGED <<availableVersions, cached, versionsMu, mu>>

\* fetchRelease(version) answered: rel is the parsed body
GetReleaseFetchOk(p) ==
    /\ pc[p] = "gr_fetch"
    /\ \E rel \in fetchRelease(loc[p].version) :
           Goto(p, "gr_lock", [loc[p] EXCEPT !.r = rel])
    /\ UNCHANGED <<availableVersions, cached, versionsMu, mu>>

\* mu.Lock()
GetReleaseLock(p) ==
    /\ pc[p] = "gr_lock"
    /\ CanLock(mu)
    /\ mu' = Lock(mu, p)
    /\ Goto(p, "gr_install", loc[p])
    /\ UNCHANGED <<availableVersions, cached, versionsMu>>

\* cached[version] = rel; mu.Unlock(); return rel, true
\* Faulty variant of GetReleaseInstall: the map is looked at again under the
\* write lock and an entry stored meanwhile is kept
GetReleaseInstallIfAbsent(p) ==
    /\ pc[p] = "gr_install"
    /\ cached' = IF loc[p].version \in DOMAIN cached THEN cached
                 ELSE mapStore(cached, loc[p].version, loc[p].r)
    /\ mu' = Unlock(mu, p)
    /\ Return(p, [NoRet EXCEPT !.rel = loc[p].r, !.found = TRUE])
    /\ UNCHANGED <<availableVersions, versionsMu>>

GetReleaseInstall(p) ==
    /\ pc[p] = "gr_install"
    /\ cached' = mapStore(cached, loc[p].version, loc[p].r)
    /\ mu' = Unlock(mu, p)
    /\ Return(p, [NoRet EXCEPT !.rel = loc[p].r, !.found = TRUE])
    /\ UNCHANGED <<availableVersions, versionsMu>>

(***************************************************************************)
(* GetReleases                                                             *)
(***************************************************************************)
\* Faulty variant of cachedNonEmpty: releases without contributors are kept
RECURSIVE cachedAny(_, _, _)
cachedAny(versions, i, m) ==
    IF i > Len(versions) THEN <<>>
    ELSE LET id == versions[i].ID
             more == cachedAny(versions, i + 1, m)
         IN  IF id \in DOMAIN m THEN <<m[id]>> \o more ELSE more

\* The loop of GetReleases over versions[i..], against the map m
RECURSIVE cachedNonEmpty(_, _, _)
cachedNonEmpty(versions, i, m) ==
    IF i > Len(versions) THEN <<>>
    ELSE LET id == versions[i].ID
             more == cachedNonEmpty(versions, i + 1, m)
         IN  IF id \in DOMAIN m /\ Len(m[id].Contributors) > 0
             THEN <<m[id]>> \o more ELSE more

\* versionsMu.RLock(), in a request's call or in the call that ends Refresh
GetReleasesRLock(p) ==
    /\ \/ p \in Clients /\ pc[p] = "idle"
          /\ Goto(p, "grs_versions", [NoLoc EXCEPT !.op = "GetReleases"])
       \/ pc[p] = "grs_call"
          /\ Goto(p, "grs_versions", [loc[p] EXCEPT !.versions = <<>>])
    /\ CanRLock(versionsMu, WaitingForVersionsMu)
    /\ versionsMu' = RLock(versionsMu, p)
    /\ UNCHANGED <<availableVersions, cached, mu>>

\* Faulty variant of GetReleasesVersions: versionsMu is kept while mu is
\* taken
GetReleasesVersionsKeepsLock(p) ==
    /\ pc[p] = "grs_versions"
    /\ Goto(p, "grs_rlock", [loc[p] EXCEPT !.versions = availableVersions])
    /\ UNCHANGED <<availableVersions, cached, versionsMu, mu>>

\* versions := availableVersions; versionsMu.RUnlock()
GetReleasesVersions(p) ==
    /\ pc[p] = "grs_versions"
    /\ versionsMu' = RUnlock(versionsMu, p)
    /\ Goto(p, "grs_rlock", [loc[p] EXCEPT !.versions = availableVersions])
    /\ UNCHANGED <<availableVersions, cached, mu>>

\* mu.RLock()
GetReleasesMapRLock(p) ==
    /\ pc[p] = "grs_rlock"
    /\ CanRLock(mu, WaitingForMu)
    /\ mu' = RLock(mu, p)
    /\ Goto(p, "grs_scan", loc[p])
    /\ UNCHANGED <<availableVersions, cached, versionsMu>>

\* the loop over versions; return results, with the deferred mu.RUnlock()
GetReleasesScan(p) ==
    /\ pc[p] = "grs_scan"
    /\ mu' = RUnlock(mu, p)
    /\ Return(p, [NoRet EXCEPT !.list = cachedNonEmpty(loc[p].versions, 1, cached),
                               !.versions = loc[p].versions])
    /\ UNCHANGED <<availableVersions, cached, versionsMu>>

(***************************************************************************)
(* Refresh, run by the background goroutine of StartBackground             *)
(***************************************************************************)
\* limit := min(prefetchCount, len(versions))
prefetchLimit(versions) ==
    IF prefetchCount > Len(versions) THEN Len(versions) ELSE prefetchCount

\* The head of the prefetch loop with locals l: fetchRelease(versions[i].ID)
\* is called and its request is in flight, or, past the limit, the loop ends
\* and GetReleases is called.
prefetchNext(p, l) ==
    IF l.i <= prefetchLimit(l.versions)
    THEN Goto(p, "pf_fetch", [l EXCEPT !.fetches = @ + 1])
    ELSE Goto(p, "grs_call", l)

\* The ticker fires: Refresh is called and its discoverVersions request is in
\* flight.
\* Faulty variant of RefreshCall: a goroutine with no ticker loop, which ran
\* Refresh once and ended
RefreshCallNoLoop(p) ==
    /\ p = Background /\ pc[p] = "ended"
    /\ Goto(p, "discover", [NoLoc EXCEPT !.op = "Refresh"])
    /\ UNCHANGED <<availableVersions, cached, versionsMu, mu>>

RefreshCall(p) ==
    /\ p = Background /\ pc[p] = "tick"
    /\ Goto(p, "discover", [NoLoc EXCEPT !.op = "Refresh"])
    /\ UNCHANGED <<availableVersions, cached, versionsMu, mu>>

\* discoverVersions() answered with a listing
RefreshDiscoverOk(p) ==
    /\ pc[p] = "discover"
    /\ \E versions \in discoverResults :
           Goto(p, "swap_lock", [loc[p] EXCEPT !.versions = versions])
    /\ UNCHANGED <<availableVersions, cached, versionsMu, mu>>

\* Faulty variant of RefreshDiscoverErr: the failure ends the process
RefreshDiscoverErrFatal(p) ==
    /\ pc[p] = "discover"
    /\ Goto(p, "exited", [loc[p] EXCEPT !.err = TRUE])
    /\ UNCHANGED <<availableVersions, cached, versionsMu, mu>>

\* discoverVersions() failed: versions is nil, err is set
RefreshDiscoverErr(p) ==
    /\ pc[p] = "discover"
    /\ Goto(p, "has_rlock", [loc[p] EXCEPT !.err = TRUE])
    /\ UNCHANGED <<availableVersions, cached, versionsMu, mu>>

\* versionsMu.RLock() before reading hasVersions
RefreshHasRLock(p) ==
    /\ pc[p] = "has_rlock"
    /\ CanRLock(versionsMu, WaitingForVersionsMu)
    /\ versionsMu' = RLock(versionsMu, p)
    /\ Goto(p, "has_read", loc[p])
    /\ UNCHANGED <<availableVersions, cached, mu>>

\* Faulty variant of RefreshHasRead: the seed list is used whenever discovery fails
RefreshHasReadAlwaysSeed(p) ==
    /\ pc[p] = "has_read"
    /\ versionsMu' = RUnlock(versionsMu, p)
    /\ Goto(p, "swap_lock",
            [loc[p] EXCEPT !.versions = toVersionInfos(fallbackVersions)])
    /\ UNCHANGED <<availableVersions, cached, mu>>

\* hasVersions := len(availableVersions) > 0; versionsMu.RUnlock();
\* if !hasVersions { versions = toVersionInfos(fallbackVersions) }
RefreshHasRead(p) ==
    /\ pc[p] = "has_read"
    /\ versionsMu' = RUnlock(versionsMu, p)
    /\ IF Len(availableVersions) > 0
       THEN Goto(p, "stale_rlock", [loc[p] EXCEPT !.hasVersions = TRUE])
       ELSE Goto(p, "swap_lock",
                 [loc[p] EXCEPT !.versions = toVersionInfos(fallbackVersions)])
    /\ UNCHANGED <<availableVersions, cached, mu>>

\* versionsMu.RLock() before copying the stale catalog
RefreshStaleRLock(p) ==
    /\ pc[p] = "stale_rlock"
    /\ CanRLock(versionsMu, WaitingForVersionsMu)
    /\ versionsMu' = RLock(versionsMu, p)
    /\ Goto(p, "stale_read", loc[p])
    /\ UNCHANGED <<availableVersions, cached, mu>>

\* versions = availableVersions; versionsMu.RUnlock()
RefreshStaleRead(p) ==
    /\ pc[p] = "stale_read"
    /\ versionsMu' = RUnlock(versionsMu, p)
    /\ Goto(p, "swap_lock", [loc[p] EXCEPT !.versions = availableVersions])
    /\ UNCHANGED <<availableVersions, cached, mu>>

\* versionsMu.Lock()
RefreshSwapLock(p) ==
    /\ pc[p] = "swap_lock"
    /\ CanLock(versionsMu)
    /\ versionsMu' = Lock(versionsMu, p)
    /\ Goto(p, "swap", loc[p])
    /\ UNCHANGED <<availableVersions, cached, mu>>

\* Faulty variant of RefreshSwap: the new descriptors are appended to the old catalog
RefreshSwapAppend(p) ==
    /\ pc[p] = "swap"
    /\ availableVersions' = availableVersions \o loc[p].versions
    /\ versionsMu' = Unlock(versionsMu, p)
    /\ prefetchNext(p, [loc[p] EXCEPT !.i = 1])
    /\ UNCHANGED <<cached, mu>>

\* availableVersions = versions; versionsMu.Unlock(); the prefetch loop starts
RefreshSwap(p) ==
    /\ pc[p] = "swap"
    /\ availableVersions' = loc[p].versions
    /\ versionsMu' = Unlock(versionsMu, p)
    /\ prefetchNext(p, [loc[p] EXCEPT !.i = 1])
    /\ UNCHANGED <<cached, mu>>

\* Faulty variant of RefreshFetchErr: the first failed fetch ends the loop
RefreshFetchErrStops(p) ==
    /\ pc[p] = "pf_fetch"
    /\ Goto(p, "grs_call", [loc[p] EXCEPT !.i = @ + 1])
    /\ UNCHANGED <<availableVersions, cached, versionsMu, mu>>

\* fetchRelease(v.ID) failed: log, continue
RefreshFetchErr(p) ==
    /\ pc[p] = "pf_fetch"
    /\ prefetchNext(p, [loc[p] EXCEPT !.i = @ + 1])
    /\ UNCHANGED <<availableVersions, cached, versionsMu, mu>>

\* fetchRelease(v.ID) answered: r is the parsed body
RefreshFetchOk(p) ==
    /\ pc[p] = "pf_fetch"
    /\ \E r \in fetchRelease(loc[p].versions[loc[p].i].ID) :
           Goto(p, "pf_lock", [loc[p] EXCEPT !.r = r])
    /\ UNCHANGED <<availableVersions, cached, versionsMu, mu>>

\* mu.Lock()
RefreshLock(p) ==
    /\ pc[p] = "pf_lock"
    /\ CanLock(mu)
    /\ mu' = Lock(mu, p)
    /\ Goto(p, "pf_install", loc[p])
    /\ UNCHANGED <<availableVersions, cached, versionsMu>>

\* Faulty variant of RefreshInstall: the entry is keyed by the display name
RefreshInstallByDisplayName(p) ==
    /\ pc[p] = "pf_install"
    /\ cached' = mapStore(cached, loc[p].r.DisplayName, loc[p].r)
    /\ mu' = Unlock(mu, p)
    /\ prefetchNext(p, [loc[p] EXCEPT !.i = @ + 1, !.r = NoRelease])
    /\ UNCHANGED <<availableVersions, versionsMu>>

\* cached[v.ID] = r; mu.Unlock(); the loop goes on
RefreshInstall(p) ==
    /\ pc[p] = "pf_install"
    /\ cached' = mapStore(cached, loc[p].versions[loc[p].i].ID, loc[p].r)
    /\ mu' = Unlock(mu, p)
    /\ prefetchNext(p, [loc[p] EXCEPT !.i = @ + 1, !.r = NoRelease])
    /\ UNCHANGED <<availableVersions, versionsMu>>

(***************************************************************************)
(* SearchContributors                                                      *)
(***************************************************************************)
\* Faulty variant of searchContrib: the aggregates are keyed by the handle as
\* written
searchContribByLiteral(byUser, contrib, query) ==
    LET userLower == ToLower(contrib.GitHubUser)
        key == contrib.GitHubUser
    IN  IF ~Contains(userLower, query) THEN byUser
        ELSE IF key \in DOMAIN byUser
          THEN [byUser EXCEPT ![key].TotalPRs = @ + Len(contrib.PRs),
                              ![key].ReleaseCount = @ + 1]
        ELSE mapStore(byUser, key,
                      [GitHubUser |-> contrib.GitHubUser,
                       Name |-> contrib.Name,
                       AvatarURL |-> contrib.AvatarURL,
                       TotalPRs |-> Len(contrib.PRs),
                       ReleaseCount |-> 1])

\* The body of the inner loop for one contributor record: byUser is the map
\* of aggregates, keyed by lower-cased handle.
searchContrib(byUser, contrib, query) ==
    LET userLower == ToLower(contrib.GitHubUser)
    IN  IF ~Contains(userLower, query) THEN byUser
        ELSE IF userLower \in DOMAIN byUser
          THEN [byUser EXCEPT ![userLower].TotalPRs = @ + Len(contrib.PRs),
                              ![userLower].ReleaseCount = @ + 1]
        ELSE mapStore(byUser, userLower,
                      [GitHubUser |-> contrib.GitHubUser,
                       Name |-> contrib.Name,
                       AvatarURL |-> contrib.AvatarURL,
                       TotalPRs |-> Len(contrib.PRs),
                       ReleaseCount |-> 1])

\* The inner loop over release.Contributors from index i on
RECURSIVE searchRelease(_, _, _, _)
searchRelease(byUser, contributors, i, query) ==
    IF i > Len(contributors) THEN byUser
    ELSE searchRelease(searchContrib(byUser, contributors[i], query),
                       contributors, i + 1, query)

\* The sequences that list every element of a set once
Arrangements(S) ==
    {f \in [1..Cardinality(S) -> S] :
        \A i, j \in 1..Cardinality(S) : i # j => f[i] # f[j]}

\* Faulty variant of searchLess: ascending
searchLessAscending(a, b) == a.TotalPRs < b.TotalPRs

\* The comparison handed to sort.Slice for the search results
searchLess(a, b) == a.TotalPRs > b.TotalPRs

\* The result slices: byUser is ranged over in any order and sort.Slice is
\* not stable, so every arrangement ordered by the comparison is possible.
searchResults(byUser) ==
    {t \in {[i \in 1..Len(ks) |-> byUser[ks[i]]] : ks \in Arrangements(DOMAIN byUser)} :
        \A i \in 1..(Len(t) - 1) : ~searchLess(t[i + 1], t[i])}

\* The loop over the map, taken in the given order of keys from index i on
RECURSIVE searchFold(_, _, _, _, _)
searchFold(byUser, order, i, m, query) ==
    IF i > Len(order) THEN byUser
    ELSE searchFold(searchRelease(byUser, m[order[i]].Contributors, 1, query),
                    order, i + 1, m, query)

\* The results SearchContributors(query) can return over the release map m
SearchContributors(m, query) ==
    IF ToLower(query) = <<>> THEN {<<>>}
    ELSE UNION {searchResults(searchFold(<<>>, order, 1, m, ToLower(query))) :
                   order \in Arrangements(DOMAIN m)}

\* mu.RLock()
SearchContributorsRLock(p, query) ==
    /\ p \in Clients /\ pc[p] = "idle"
    /\ CanRLock(mu, WaitingForMu)
    /\ mu' = RLock(mu, p)
    /\ Goto(p, "sc_query", [NoLoc EXCEPT !.op = "SearchContributors", !.arg = query])
    /\ UNCHANGED <<availableVersions, cached, versionsMu>>

\* Faulty variant of SearchContributorsQuery: the empty query is not refused
SearchContributorsQueryAny(p) ==
    /\ pc[p] = "sc_query"
    /\ mu' = mu
    /\ Goto(p, "sc_scan", [loc[p] EXCEPT !.todo = DOMAIN cached])
    /\ UNCHANGED <<availableVersions, cached, versionsMu>>

\* query = strings.ToLower(query); an empty query returns nil, with the
\* deferred mu.RUnlock(); otherwise the loop over the map starts
SearchContributorsQuery(p) ==
    /\ pc[p] = "sc_query"
    /\ IF ToLower(loc[p].arg) = <<>>
       THEN /\ mu' = RUnlock(mu, p)
            /\ Return(p, NoRet)
       ELSE /\ mu' = mu
            /\ Goto(p, "sc_scan", [loc[p] EXCEPT !.todo = DOMAIN cached])
    /\ UNCHANGED <<availableVersions, cached, versionsMu>>

\* One iteration of `for _, release := range cached`: the map is ranged over
\* in an order the runtime chooses
SearchContributorsScan(p) ==
    /\ pc[p] = "sc_scan"
    /\ \E k \in loc[p].todo :
           Goto(p, "sc_scan",
                [loc[p] EXCEPT !.todo = @ \ {k},
                               !.acc = searchRelease(@, cached[k].Contributors, 1,
                                                     ToLower(loc[p].arg))])
    /\ UNCHANGED <<availableVersions, cached, versionsMu, mu>>

\* The loop is over: the aggregates are copied to a slice, sorted and
\* returned, with the deferred mu.RUnlock()
SearchContributorsReturn(p) ==
    /\ pc[p] = "sc_scan" /\ loc[p].todo = {}
    /\ mu' = RUnlock(mu, p)
    /\ \E results \in searchResults(loc[p].acc) :
           Return(p, [NoRet EXCEPT !.out = results])
    /\ UNCHANGED <<availableVersions, cached, versionsMu>>

(***************************************************************************)
(* GetContributorHistory                                                   *)
(***************************************************************************)
\* history, firstVersion, latestVersion and their numbers before the loop
historyInit ==
    [GitHubUser |-> <<>>, Name |-> <<>>, AvatarURL |-> <<>>,
     TotalPRs |-> 0, ReleaseCount |-> 0, PRsByRelease |-> <<>>,
     firstVersion |-> <<>>, latestVersion |-> <<>>,
     firstVersionNum |-> 0, latestVersionNum |-> 0]

\* The body of the inner loop for a contributor record that matches
historyMatch(h, version, contrib) ==
    LET h1 == IF h.GitHubUser = <<>>
              THEN [h EXCEPT !.GitHubUser = contrib.GitHubUser,
                             !.Name = contrib.Name,
                             !.AvatarURL = contrib.AvatarURL]
              ELSE h
        h2 == IF Len(contrib.PRs) > 0
              THEN [h1 EXCEPT !.PRsByRelease =
                                  mapStore(@, version,
                                           (IF version \in DOMAIN @ THEN @[version]
                                            ELSE <<>>) \o contrib.PRs),
                              !.TotalPRs = @ + Len(contrib.PRs)]
              ELSE h1
        h3 == [h2 EXCEPT !.ReleaseCount = @ + 1]
        vNum == versionNumber(version)
        h4 == IF h3.firstVersion = <<>> \/ vNum < h3.firstVersionNum
              THEN [h3 EXCEPT !.firstVersion = version, !.firstVersionNum = vNum]
              ELSE h3
    IN  IF h4.latestVersion = <<>> \/ vNum > h4.latestVersionNum
        THEN [h4 EXCEPT !.latestVersion = version, !.latestVersionNum = vNum]
        ELSE h4

\* The inner loop over release.Contributors from index i on: it ends at the
\* first record that matches (break)
RECURSIVE historyRelease(_, _, _, _, _)
historyRelease(h, version, contributors, i, usernameLower) ==
    IF i > Len(contributors) THEN h
    ELSE IF ToLower(contributors[i].GitHubUser) = usernameLower
      THEN historyMatch(h, version, contributors[i])
    ELSE historyRelease(h, version, contributors, i + 1, usernameLower)

\* The ContributorHistory returned for the locals h
historyOf(h) ==
    [GitHubUser |-> h.GitHubUser, Name |-> h.Name, AvatarURL |-> h.AvatarURL,
     TotalPRs |-> h.TotalPRs, ReleaseCount |-> h.ReleaseCount,
     FirstRelease |-> h.firstVersion, LatestRelease |-> h.latestVersion,
     PRsByRelease |-> h.PRsByRelease]

\* The loop over the map, taken in the given order of keys from index i on
RECURSIVE historyFold(_, _, _, _, _)
historyFold(h, order, i, m, usernameLower) ==
    IF i > Len(order) THEN h
    ELSE historyFold(historyRelease(h, order[i], m[order[i]].Contributors, 1,
                                    usernameLower),
                     order, i + 1, m, usernameLower)

\* What GetContributorHistory returns for the locals h: nil (found is false)
\* or the history
historyResult(h) ==
    IF h.GitHubUser = <<>> THEN [found |-> FALSE, out |-> <<>>]
    ELSE [found |-> TRUE, out |-> historyOf(h)]

\* The results GetContributorHistory(username) can return over the map m
GetContributorHistory(m, username) ==
    {historyResult(historyFold(historyInit, order, 1, m, ToLower(username))) :
        order \in Arrangements(DOMAIN m)}

\* mu.RLock(); the locals are set up and the loop over the map starts
GetContributorHistoryRLock(p, username) ==
    /\ p \in Clients /\ pc[p] = "idle"
    /\ CanRLock(mu, WaitingForMu)
    /\ mu' = RLock(mu, p)
    /\ Goto(p, "gh_scan", [NoLoc EXCEPT !.op = "GetContributorHistory",
                                        !.arg = username,
                                        !.todo = DOMAIN cached,
                                        !.acc = historyInit])
    /\ UNCHANGED <<availableVersions, cached, versionsMu>>

\* One iteration of `for version, release := range cached`
GetContributorHistoryScan(p) ==
    /\ pc[p] = "gh_scan"
    /\ \E k \in loc[p].todo :
           Goto(p, "gh_scan",
                [loc[p] EXCEPT !.todo = @ \ {k},
                               !.acc = historyRelease(@, k, cached[k].Contributors, 1,
                                                      ToLower(loc[p].arg))])
    /\ UNCHANGED <<availableVersions, cached, versionsMu, mu>>

\* The loop is over: nil if no record matched, else the history, with the
\* deferred mu.RUnlock()
GetContributorHistoryReturn(p) ==
    /\ pc[p] = "gh_scan" /\ loc[p].todo = {}
    /\ mu' = RUnlock(mu, p)
    /\ IF loc[p].acc.GitHubUser = <<>>
       THEN Return(p, NoRet)
       ELSE Return(p, [NoRet EXCEPT !.found = TRUE, !.out = historyOf(loc[p].acc)])
    /\ UNCHANGED <<availableVersions, cached, versionsMu>>

(***************************************************************************)
(* IsFirstTimeContributor                                                  *)
(***************************************************************************)
\* versionsMu.RLock()
IsFirstTimeContributorVersionsRLock(p, username, version) ==
    /\ p \in Clients /\ pc[p] = "idle"
    /\ CanRLock(versionsMu, WaitingForVersionsMu)
    /\ versionsMu' = RLock(versionsMu, p)
    /\ Goto(p, "ft_versions", [NoLoc EXCEPT !.op = "IsFirstTimeContributor",
                                            !.arg = username,
                                            !.version = version])
    /\ UNCHANGED <<availableVersions, cached, mu>>

\* versions := availableVersions; versionsMu.RUnlock()
IsFirstTimeContributorVersions(p) ==
    /\ pc[p] = "ft_versions"
    /\ versionsMu' = RUnlock(versionsMu, p)
    /\ Goto(p, "ft_rlock", [loc[p] EXCEPT !.versions = availableVersions])
    /\ UNCHANGED <<availableVersions, cached, mu>>

\* targetNum := versionNumber(version); mu.RLock(); the loop starts
IsFirstTimeContributorMapRLock(p) ==
    /\ pc[p] = "ft_rlock"
    /\ CanRLock(mu, WaitingForMu)
    /\ mu' = RLock(mu, p)
    /\ Goto(p, "ft_scan", [loc[p] EXCEPT !.i = 1])
    /\ UNCHANGED <<availableVersions, cached, versionsMu>>

\* The contributors of rel hold a handle equal to username up to letter case
hasContributor(rel, username) ==
    \E j \in 1..Len(rel.Contributors) :
        EqualFold(rel.Contributors[j].GitHubUser, username)

\* What IsFirstTimeContributor(username, version) returns over the catalog
\* versions and the release map m
IsFirstTimeContributor(versions, m, username, version) ==
    ~\E i \in 1..Len(versions) :
        /\ versionNumber(versions[i].ID) < versionNumber(version)
        /\ versions[i].ID \in DOMAIN m
        /\ hasContributor(m[versions[i].ID], username)

\* One iteration of `for _, v := range versions`: versions at or after the
\* target and versions that are not cached are skipped; a cached earlier
\* release that holds the handle returns false, with the deferred mu.RUnlock()
IsFirstTimeContributorScan(p) ==
    /\ pc[p] = "ft_scan" /\ loc[p].i <= Len(loc[p].versions)
    /\ LET v == loc[p].versions[loc[p].i]
       IN  IF /\ versionNumber(v.ID) < versionNumber(loc[p].version)
              /\ v.ID \in DOMAIN cached
              /\ hasContributor(cached[v.ID], loc[p].arg)
           THEN /\ mu' = RUnlock(mu, p)
                /\ Return(p, [NoRet EXCEPT !.out = FALSE, !.versions = loc[p].versions])
           ELSE /\ mu' = mu
                /\ Goto(p, "ft_scan", [loc[p] EXCEPT !.i = @ + 1])
    /\ UNCHANGED <<availableVersions, cached, versionsMu>>

\* The loop is over: return true, with the deferred mu.RUnlock()
IsFirstTimeContributorReturn(p) ==
    /\ pc[p] = "ft_scan" /\ loc[p].i > Len(loc[p].versions)
    /\ mu' = RUnlock(mu, p)
    /\ Return(p, [NoRet EXCEPT !.out = TRUE, !.versions = loc[p].versions])
    /\ UNCHANGED <<availableVersions, cached, versionsMu>>

(***************************************************************************)
(* LeaderboardHandler (web)                                                *)
(***************************************************************************)
\* The entries kept after sorting
leaderboardLimit == 50

\* The body of the inner loop for one contributor record c of release id:
\* statsMap is keyed by the handle as written
leaderboardContrib(statsMap, id, c) ==
    LET s0 == IF c.GitHubUser \in DOMAIN statsMap THEN statsMap[c.GitHubUser]
              ELSE [Name |-> c.Name, GitHubUser |-> c.GitHubUser,
                    AvatarURL |-> c.AvatarURL, PRCount |-> 0, Releases |-> {}]
        s1 == [s0 EXCEPT !.PRCount = @ + Len(c.PRs),
                         !.Releases = @ \cup {id},
                         !.Name = IF c.Name # <<>> THEN c.Name ELSE @,
                         !.AvatarURL = IF c.AvatarURL # <<>> THEN c.AvatarURL ELSE @]
    IN  mapStore(statsMap, c.GitHubUser, s1)

\* The inner loop over rel.Contributors from index i on
RECURSIVE leaderboardRelease(_, _, _, _)
leaderboardRelease(statsMap, id, contributors, i) ==
    IF i > Len(contributors) THEN statsMap
    ELSE leaderboardRelease(leaderboardContrib(statsMap, id, contributors[i]),
                            id, contributors, i + 1)

\* Faulty variant of leaderboardLess: the PR-ranked comparison in both views
leaderboardLessIgnoringTab(tab, a, b) ==
    IF a.PRCount # b.PRCount THEN a.PRCount > b.PRCount
    ELSE a.Releases > b.Releases

\* The comparisons handed to sort.Slice
leaderboardLess(tab, a, b) ==
    IF tab = "releases"
    THEN IF a.Releases # b.Releases THEN a.Releases > b.Releases
         ELSE a.PRCount > b.PRCount
    ELSE IF a.PRCount # b.PRCount THEN a.PRCount > b.PRCount
         ELSE a.Releases > b.Releases

leaderboardEntry(s) ==
    [Name |-> s.Name, GitHubUser |-> s.GitHubUser, AvatarURL |-> s.AvatarURL,
     PRCount |-> s.PRCount, Releases |-> Cardinality(s.Releases), Rank |-> 0]

\* The results sort.Slice may leave for the entries of the handles in S: the
\* map is ranged over in any order and sort.Slice is not stable, so entries
\* that compare equal come in any order
RECURSIVE leaderboardSorted(_, _, _)
leaderboardSorted(statsMap, tab, S) ==
    IF S = {} THEN {<<>>}
    ELSE LET e(k) == leaderboardEntry(statsMap[k])
             first == {k \in S : \A j \in S : ~leaderboardLess(tab, e(j), e(k))}
         IN  UNION {{<<e(k)>> \o t : t \in leaderboardSorted(statsMap, tab, S \ {k})} :
                       k \in first}

\* Faulty variant of leaderboardEntries: every entry is kept
leaderboardEntriesUncut(statsMap, tab) ==
    {[i \in 1..Len(t) |-> [t[i] EXCEPT !.Rank = i]] :
        t \in leaderboardSorted(statsMap, tab, DOMAIN statsMap)}

\* The entry slices the page may show: sorted, cut to the limit and ranked
leaderboardEntries(statsMap, tab) ==
    LET limit(t) == IF leaderboardLimit > Len(t) THEN Len(t) ELSE leaderboardLimit
    IN  {[i \in 1..limit(t) |-> [t[i] EXCEPT !.Rank = i]] :
            t \in leaderboardSorted(statsMap, tab, DOMAIN statsMap)}

\* The head of the loop over availableVersions with locals l:
\* scraper.GetRelease(v.ID) is called, or the loop is over
leaderboardNext(p, l) ==
    IF l.i <= Len(l.versions) THEN Goto(p, "lb_rlock", l) ELSE Goto(p, "lb_rank", l)

\* scraper.GetAvailableVersions(): versionsMu.RLock()
LeaderboardVersionsRLock(p, tab) ==
    /\ p \in Clients /\ pc[p] = "idle"
    /\ CanRLock(versionsMu, WaitingForVersionsMu)
    /\ versionsMu' = RLock(versionsMu, p)
    /\ Goto(p, "lb_versions", [NoLoc EXCEPT !.op = "Leaderboard", !.arg = tab])
    /\ UNCHANGED <<availableVersions, cached, mu>>

\* GetAvailableVersions returns; with no versions the loading page is
\* rendered; otherwise tab is normalised and the loop starts
LeaderboardVersions(p) ==
    /\ pc[p] = "lb_versions"
    /\ versionsMu' = RUnlock(versionsMu, p)
    /\ IF Len(availableVersions) = 0
       THEN Return(p, [NoRet EXCEPT !.out = [Loading |-> TRUE, Tab |-> "prs",
                                             Entries |-> <<>>]])
       ELSE leaderboardNext(p, [loc[p] EXCEPT
                                    !.versions = availableVersions,
                                    !.tab = IF loc[p].arg # "releases"
                                            THEN "prs" ELSE loc[p].arg,
                                    !.i = 1])
    /\ UNCHANGED <<availableVersions, cached, mu>>

\* GetRelease: mu.RLock()
LeaderboardRLock(p) ==
    /\ pc[p] = "lb_rlock"
    /\ CanRLock(mu, WaitingForMu)
    /\ mu' = RLock(mu, p)
    /\ Goto(p, "lb_read", loc[p])
    /\ UNCHANGED <<availableVersions, cached, versionsMu>>

\* GetRelease: r, ok := cached[version]; mu.RUnlock(); a hit is aggregated,
\* a miss calls fetchRelease, whose request is now in flight
LeaderboardRead(p) ==
    /\ pc[p] = "lb_read"
    /\ mu' = RUnlock(mu, p)
    /\ LET id == loc[p].versions[loc[p].i].ID
       IN  IF id \in DOMAIN cached
           THEN leaderboardNext(p, [loc[p] EXCEPT
                    !.acc = leaderboardRelease(@, id, cached[id].Contributors, 1),
                    !.i = @ + 1])
           ELSE Goto(p, "lb_fetch", [loc[p] EXCEPT !.fetches = @ + 1])
    /\ UNCHANGED <<availableVersions, cached, versionsMu>>

\* GetRelease: the fetch failed, ok is false: continue
LeaderboardFetchErr(p) ==
    /\ pc[p] = "lb_fetch"
    /\ leaderboardNext(p, [loc[p] EXCEPT !.i = @ + 1])
    /\ UNCHANGED <<availableVersions, cached, versionsMu, mu>>

\* GetRelease: the fetch answered
LeaderboardFetchOk(p) ==
    /\ pc[p] = "lb_fetch"
    /\ \E r \in fetchRelease(loc[p].versions[loc[p].i].ID) :
           Goto(p, "lb_lock", [loc[p] EXCEPT !.r = r])
    /\ UNCHANGED <<availableVersions, cached, versionsMu, mu>>

\* GetRelease: mu.Lock()
LeaderboardLock(p) ==
    /\ pc[p] = "lb_lock"
    /\ CanLock(mu)
    /\ mu' = Lock(mu, p)
    /\ Goto(p, "lb_install", loc[p])
    /\ UNCHANGED <<availableVersions, cached, versionsMu>>

\* GetRelease: cached[version] = rel; mu.Unlock(); the release is aggregated
LeaderboardInstall(p) ==
    /\ pc[p] = "lb_install"
    /\ LET id == loc[p].versions[loc[p].i].ID
       IN  /\ cached' = mapStore(cached, id, loc[p].r)
           /\ leaderboardNext(p, [loc[p] EXCEPT
                  !.acc = leaderboardRelease(@, id, loc[p].r.Contributors, 1),
                  !.i = @ + 1, !.r = NoRelease])
    /\ mu' = Unlock(mu, p)
    /\ UNCHANGED <<availableVersions, versionsMu>>

\* The entries are sorted, cut, ranked and rendered
LeaderboardReturn(p) ==
    /\ pc[p] = "lb_rank"
    /\ \E entries \in leaderboardEntries(loc[p].acc, loc[p].tab) :
           Return(p, [NoRet EXCEPT !.out = [Loading |-> FALSE, Tab |-> loc[p].tab,
                                            Entries |-> entries],
                                   !.versions = loc[p].versions])
    /\ UNCHANGED <<availableVersions, cached, versionsMu, mu>>

(***************************************************************************)
(* The system                                                              *)
(***************************************************************************)
Next ==
    \E p \in Procs :
        \/ GetAvailableVersionsRLock(p)
        \/ GetAvailableVersionsRead(p)
        \/ \E version \in RequestIDs : GetReleaseRLock(p, version)
        \/ GetReleaseRead(p)
        \/ GetReleaseFetchErr(p)
        \/ GetReleaseFetchOk(p)
        \/ GetReleaseLock(p)
        \/ GetReleaseInstall(p)
        \/ GetReleasesRLock(p)
        \/ GetReleasesVersions(p)
        \/ GetReleasesMapRLock(p)
        \/ GetReleasesScan(p)
        \/ RefreshCall(p)
        \/ RefreshDiscoverOk(p)
        \/ RefreshDiscoverErr(p)
        \/ RefreshHasRLock(p)
        \/ RefreshHasRead(p)
        \/ RefreshStaleRLock(p)
        \/ RefreshStaleRead(p)
        \/ RefreshSwapLock(p)
        \/ RefreshSwap(p)
        \/ RefreshFetchErr(p)
        \/ RefreshFetchOk(p)
        \/ RefreshLock(p)
        \/ RefreshInstall(p)

Spec == Init /\ [][Next]_vars

(***************************************************************************)
(* The same system under the scheduling the runtime provides               *)
(***************************************************************************)
\* The steps by which a request goroutine carries on a call it has begun
ClientStep(p) ==
    /\ p \in Clients
    /\ \/ GetAvailableVersionsRead(p)
       \/ GetReleaseRead(p)
       \/ GetReleaseFetchErr(p)
       \/ GetReleaseFetchOk(p)
       \/ GetReleaseLock(p)
       \/ GetReleaseInstall(p)
       \/ GetReleasesVersions(p)
       \/ GetReleasesMapRLock(p)
       \/ GetReleasesScan(p)

\* The steps of StartBackground's goroutine: the ticker fires, a request is
\* answered or times out, a lock is granted, Refresh's own statements run
BackgroundStep ==
    \/ RefreshCall(Background)
    \/ RefreshDiscoverOk(Background)
    \/ RefreshDiscoverErr(Background)
    \/ RefreshHasRLock(Background)
    \/ RefreshHasRead(Background)
    \/ RefreshStaleRLock(Background)
    \/ RefreshStaleRead(Background)
    \/ RefreshSwapLock(Background)
    \/ RefreshSwap(Background)
    \/ RefreshFetchErr(Background)
    \/ RefreshFetchOk(Background)
    \/ RefreshLock(Background)
    \/ RefreshInstall(Background)
    \/ GetReleasesRLock(Background)
    \/ GetReleasesVersions(Background)
    \/ GetReleasesMapRLock(Background)
    \/ GetReleasesScan(Background)

\* Every goroutine that can run is scheduled; a goroutine waiting in Lock or
\* RLock gets the lock once it is free often enough; every request ends (the
\* client has a timeout).  Whether requests keep arriving is left open.
Fairness ==
    /\ SF_vars(BackgroundStep)
    /\ \A p \in Clients : WF_vars(ClientStep(p))

SpecFair == Spec /\ Fairness

(***************************************************************************)
(* The aggregation queries and the leaderboard page, served while the      *)
(* background goroutine refreshes                                          *)
(***************************************************************************)
\* The arguments requests come with
QueryStrings == {<<"A", "L", "I">>}
QueryUsers == {HAliceCap}
QueryVersions == {V1_109}
QueryTabs == {"releases"}

RefreshStep(p) ==
    \/ RefreshCall(p)
    \/ RefreshDiscoverOk(p)
    \/ RefreshDiscoverErr(p)
    \/ RefreshHasRLock(p)
    \/ RefreshHasRead(p)
    \/ RefreshStaleRLock(p)
    \/ RefreshStaleRead(p)
    \/ RefreshSwapLock(p)
    \/ RefreshSwap(p)
    \/ RefreshFetchErr(p)
    \/ RefreshFetchOk(p)
    \/ RefreshLock(p)
    \/ RefreshInstall(p)
    \/ p = Background /\ GetReleasesRLock(p)
    \/ p = Background /\ GetReleasesVersions(p)
    \/ p = Background /\ GetReleasesMapRLock(p)
    \/ p = Background /\ GetReleasesScan(p)

QueryStep(p, strings, users, versions) ==
    \/ \E query \in strings : SearchContributorsRLock(p, query)
    \/ SearchContributorsQuery(p)
    \/ SearchContributorsScan(p)
    \/ SearchContributorsReturn(p)
    \/ \E username \in users : GetContributorHistoryRLock(p, username)
    \/ GetContributorHistoryScan(p)
    \/ GetContributorHistoryReturn(p)
    \/ \E username \in users, version \in versions :
           IsFirstTimeContributorVersionsRLock(p, username, version)
    \/ IsFirstTimeContributorVersions(p)
    \/ IsFirstTimeContributorMapRLock(p)
    \/ IsFirstTimeContributorScan(p)
    \/ IsFirstTimeContributorReturn(p)

LeaderboardStep(p, tabs) ==
    \/ \E tab \in tabs : LeaderboardVersionsRLock(p, tab)
    \/ LeaderboardVersions(p)
    \/ LeaderboardRLock(p)
    \/ LeaderboardRead(p)
    \/ LeaderboardFetchErr(p)
    \/ LeaderboardFetchOk(p)
    \/ LeaderboardLock(p)
    \/ LeaderboardInstall(p)
    \/ LeaderboardReturn(p)

NextQuery ==
    \E p \in Procs :
        \/ RefreshStep(p)
        \/ QueryStep(p, QueryStrings, QueryUsers, QueryVersions)

SpecQuery == Init /\ [][NextQuery]_vars

NextBoard ==
    \E p \in Procs :
        \/ RefreshStep(p)
        \/ LeaderboardStep(p, QueryTabs)

SpecBoard == Init /\ [][NextBoard]_vars

(***************************************************************************)
(* The seven operations of the package together                            *)
(***************************************************************************)
NextAll ==
    \/ Next
    \/ \E p \in Procs : QueryStep(p, QueryStrings, QueryUsers, QueryVersions)

SpecAll == Init /\ [][NextAll]_vars

\* The steps by which a request goroutine carries on a search, a history or
\* a first-time query it has begun
QueryCarryOn(p) ==
    /\ p \in Clients
    /\ \/ SearchContributorsQuery(p)
       \/ SearchContributorsScan(p)
       \/ SearchContributorsReturn(p)
       \/ GetContributorHistoryScan(p)
       \/ GetContributorHistoryReturn(p)
       \/ IsFirstTimeContributorVersions(p)
       \/ IsFirstTimeContributorMapRLock(p)
       \/ IsFirstTimeContributorScan(p)
       \/ IsFirstTimeContributorReturn(p)

\* Every goroutine that can run is scheduled, every request ends, and a
\* goroutine blocked in Lock or RLock gets the lock once it is free often
\* enough: Unlock hands the lock to the readers that wait, RUnlock of the
\* last reader to the writer that waits.
FairnessAll ==
    /\ SF_vars(BackgroundStep)
    /\ \A p \in Clients : SF_vars(ClientStep(p) \/ QueryCarryOn(p))

\* The same operations while the listing endpoint answers every request it
\* answers with one listing of three release files; everything else is as
\* in NextAll
LockListing == <<Readme, FileOf(V1_9), FileOf(V1_10), FileOf(V1_109)>>

NextLocks ==
    \E p \in Procs :
        \/ GetAvailableVersionsRLock(p)
        \/ GetAvailableVersionsRead(p)
        \/ \E version \in RequestIDs : GetReleaseRLock(p, version)
        \/ GetReleaseRead(p)
        \/ GetReleaseFetchErr(p)
        \/ GetReleaseFetchOk(p)
        \/ GetReleaseLock(p)
        \/ GetReleaseInstall(p)
        \/ GetReleasesRLock(p)
        \/ GetReleasesVersions(p)
        \/ GetReleasesMapRLock(p)
        \/ GetReleasesScan(p)
        \/ RefreshCall(p)
        \/ RefreshDiscoverOk(p) /\ loc'[p].versions \in discoverVersions(LockListing)
        \/ RefreshDiscoverErr(p)
        \/ RefreshHasRLock(p)
        \/ RefreshHasRead(p)
        \/ RefreshStaleRLock(p)
        \/ RefreshStaleRead(p)
        \/ RefreshSwapLock(p)
        \/ RefreshSwap(p)
        \/ RefreshFetchErr(p)
        \/ RefreshFetchOk(p)
        \/ RefreshLock(p)
        \/ RefreshInstall(p)
        \/ QueryStep(p, QueryStrings, QueryUsers, QueryVersions)

SpecLocks == Init /\ [][NextLocks]_vars /\ FairnessAll

(***************************************************************************)
(* The aggregation queries over a cache at rest: the background goroutine  *)
(* waits for its ticker, the catalog is one Refresh installed, and the     *)
(* release map holds what requests and prefetches have stored.             *)
(***************************************************************************)
\* The release maps with the given keys
CachesOver(ids) == {m \in [ids -> UNION {fetchRelease(k) : k \in ids}] :
                       \A k \in ids : m[k] \in fetchRelease(k)}

AggKeySets == { {}, {V1_109}, {V1_109, V1_9}, {V1_109, V1_110}, {V1_110},
                {V1_10002, V2_1} }
AggCaches == UNION {CachesOver(ids) : ids \in AggKeySets}
AggCatalogs == (discoverResults \cup {toVersionInfos(fallbackVersions)}) \ {<<>>}

AggStrings == {<<>>, <<"A", "L", "I">>, <<"b">>}
AggUsers == {HAliceCap, HBob}
AggVersions == {V1_109, V1_9}

InitAgg ==
    /\ availableVersions \in AggCatalogs
    /\ cached \in AggCaches
    /\ versionsMu = Unlocked
    /\ mu = Unlocked
    /\ kudosStore = <<>>
    /\ kudosMu = Unlocked
    /\ pc = [p \in Procs |-> IF p = Background THEN "tick" ELSE "idle"]
    /\ loc = [p \in Procs |-> NoLoc]
    /\ ret = NoRet

NextAgg == \E p \in Clients : QueryStep(p, AggStrings, AggUsers, AggVersions)

SpecAgg == InitAgg /\ [][NextAgg]_vars

(***************************************************************************)
(* The leaderboard page over a cache at rest, with release notes that      *)
(* thank about as many contributors as the page shows                      *)
(***************************************************************************)
\* The release-notes directory as the last Refresh saw it
RankListings ==
    { <<FileOf(V1_111)>>,
      <<FileOf(V1_110), FileOf(V1_109)>>,
      <<FileOf(V1_110), Readme, FileOf(V1_112), FileOf(V1_109), FileOf(V1_111)>> }

RankCatalogs == UNION {discoverVersions(l) : l \in RankListings}
RankKeySets == { {}, {V1_112}, {V1_110, V1_109}, {V1_112, V1_111} }
RankCaches == UNION {CachesOver(ids) : ids \in RankKeySets}

\* The tab parameters requests come with
RankTabs == {"prs", "releases", ""}

InitRank ==
    /\ availableVersions \in RankCatalogs
    /\ cached \in RankCaches
    /\ versionsMu = Unlocked
    /\ mu = Unlocked
    /\ kudosStore = <<>>
    /\ kudosMu = Unlocked
    /\ pc = [p \in Procs |-> IF p = Background THEN "tick" ELSE "idle"]
    /\ loc = [p \in Procs |-> NoLoc]
    /\ ret = NoRet

NextRank == \E p \in Clients : LeaderboardStep(p, RankTabs)

SpecRank == InitRank /\ [][NextRank]_vars

(***************************************************************************)
(* Requests for one version racing each other and the background Refresh   *)
(***************************************************************************)
\* The request goroutines: one more than elsewhere, so that two race
RaceCallers == 1..(NumClients + 1)

\* The version they all ask for
RaceIDs == {V1_109}

InitRace ==
    /\ availableVersions = <<>>
    /\ cached = <<>>
    /\ versionsMu = Unlocked
    /\ mu = Unlocked
    /\ kudosStore = <<>>
    /\ kudosMu = Unlocked
    /\ pc = [p \in {Background} \cup RaceCallers |->
                IF p = Background THEN "discover" ELSE "idle"]
    /\ loc = [p \in {Background} \cup RaceCallers |->
                 IF p = Background THEN [NoLoc EXCEPT !.op = "Refresh"] ELSE NoLoc]
    /\ ret = NoRet

GetReleaseStep(p, ids) ==
    \/ \E version \in ids : GetReleaseRLock(p, version)
    \/ GetReleaseRead(p)
    \/ GetReleaseFetchErr(p)
    \/ GetReleaseFetchOk(p)
    \/ GetReleaseLock(p)
    \/ GetReleaseInstall(p)

NextRace ==
    \/ RefreshStep(Background)
    \/ \E p \in RaceCallers : GetReleaseStep(p, RaceIDs)

SpecRace == InitRace /\ [][NextRace]_vars

(***************************************************************************)
(* The parser alone: fetchRelease hands it a version and a response body   *)
(***************************************************************************)
\* The contributor line
\* * [@alice (Alice A.)](https://github.com/alice): fixed bug [PR #42](https://github.com/org/repo/pull/42)
LineOrgRepo ==
    [kind |-> "contrib", user |-> HAlice, paren |-> <<NAliceA>>,
     items |-> <<Colon, Space, Txt("fixed bug"), Space,
                 [number |-> "42", path |-> "org/repo", pull |-> "42"]>>]

\* * [@bob](https://github.com/bob)
LineBob == [kind |-> "contrib", user |-> HBob, paren |-> <<>>, items |-> <<>>]

\*   * docs [PR #7](https://github.com/microsoft/vscode/pull/7)
LineSub ==
    [kind |-> "sub", user |-> <<>>, paren |-> <<>>,
     items |-> <<Txt("docs"), Space, PRLink("7")>>]

\* * [@bob](https://github.com/bob): one [PR #1](...), two [PR #2](...)
LineTwoLinks ==
    [kind |-> "contrib", user |-> HBob, paren |-> <<>>,
     items |-> <<Colon, Space, Txt("one"), Space, PRLink("1"), Txt(","), Space,
                 Txt("two"), Space, PRLink("2")>>]

\*   * [PR #7](...) again [PR #7](...)
LineSameLinkTwice ==
    [kind |-> "sub", user |-> <<>>, paren |-> <<>>,
     items |-> <<PRLink("7"), Space, Txt("again"), Space, PRLink("7")>>]

\* The lines response bodies are made of
ParseLines ==
    { Line("text"), Line("prsection"), Line("h2"), Line("repo"), LineOrgRepo,
      LineBob, LineSub, LineTwoLinks, LineSameLinkTwice }

\* The longest response body made of any lines
MaxLines == 3

\* Longer response bodies: a second pull-request section after the "## "
\* heading that ends the first; sub-items before and after a repo-section
\* heading
ParseCases ==
    { <<LineOrgRepo, Line("prsection"), LineBob, LineSub, Line("h2"),
        Line("prsection"), LineOrgRepo, LineSub>>,
      <<Line("prsection"), LineOrgRepo, LineSub, Line("repo"), LineSub,
        LineTwoLinks, LineSameLinkTwice>>,
      <<Line("prsection"), LineOrgRepo, Line("text"), LineSub,
        Line("prsection"), LineSub, LineOrgRepo>> }

ParseDocs == UNION {[1..n -> ParseLines] : n \in 0..MaxLines} \cup ParseCases

\* The version arguments, well-formed or not
ParseVersions == {V1_109, V2_0, <<"x">>, <<>>}

\* fetchRelease(version): the response body has been read;
\* parseMarkdown(version, body) is returned with a nil error
FetchReleaseParse(p) ==
    /\ pc[p] = "parse"
    /\ Return(p, [NoRet EXCEPT !.rel = parseMarkdown(loc[p].version, loc[p].arg),
                               !.found = TRUE])
    /\ UNCHANGED <<availableVersions, cached, versionsMu, mu>>

\* One goroutine is inside fetchRelease, its response body just read
InitParse ==
    /\ availableVersions = <<>>
    /\ cached = <<>>
    /\ versionsMu = Unlocked
    /\ mu = Unlocked
    /\ kudosStore = <<>>
    /\ kudosMu = Unlocked
    /\ \E p \in Clients, version \in ParseVersions, md \in ParseDocs :
           /\ pc = [q \in Procs |-> IF q = p THEN "parse"
                                    ELSE IF q = Background THEN "tick" ELSE "idle"]
           /\ loc = [q \in Procs |->
                        IF q = p THEN [NoLoc EXCEPT !.op = "parseMarkdown",
                                                    !.version = version, !.arg = md]
                        ELSE NoLoc]
    /\ ret = NoRet

NextParse == \E p \in Clients : FetchReleaseParse(p)

SpecParse == InitParse /\ [][NextParse]_vars

(***************************************************************************)
(* KudosHandler: requests for /api/kudos/<username>                        *)
(***************************************************************************)
\* validUser: ^[a-zA-Z0-9]([a-zA-Z0-9\-]*[a-zA-Z0-9])?$
AlphaNum ==
    {UpperLetters[i] : i \in 1..26} \cup {LowerLetters[i] : i \in 1..26}
        \cup {DigitChars[i] : i \in 1..10}

validUser(s) ==
    /\ Len(s) >= 1
    /\ s[1] \in AlphaNum
    /\ s[Len(s)] \in AlphaNum
    /\ \A i \in 1..Len(s) : s[i] \in AlphaNum \cup {"-"}

\* kudosStore[username]: the zero value for a key the map does not hold
kudosAt(store, username) ==
    IF username \in DOMAIN store THEN store[username] ELSE 0

\* The request goroutines of the kudos endpoint; each serves one request and
\* its client keeps the response
KudosCallers == 1..(NumClients + 2)

\* What the requests carry: the path after /api/kudos/ and the method
KudosUsers == {HAlice, HBob, <<>>, <<"-", "a">>, <<"a", "/", "b">>}
KudosMethods == {"POST", "GET", "DELETE"}

\* The goroutines blocked in kudosMu.Lock()
WaitingForKudosMu == {p \in DOMAIN pc : pc[p] = "k_lock"}

\* The response is written: the status and, with 200, the count
KudosRespond(p, status, count) ==
    Jump(p, "responded", [loc[p] EXCEPT !.status = status, !.count = count])

\* A request arrives: the username is cut from the path and checked, the
\* method selects the branch
KudosRequest(p, method, username) ==
    /\ pc[p] = "idle"
    /\ LET l == [NoLoc EXCEPT !.op = "KudosHandler", !.method = method,
                              !.arg = username]
       IN  IF username = <<>> \/ ~validUser(username)
           THEN Jump(p, "responded", [l EXCEPT !.status = 400])
           ELSE IF method = "POST" THEN Jump(p, "k_lock", l)
           ELSE IF method = "GET" THEN Jump(p, "k_rlock", l)
           ELSE Jump(p, "responded", [l EXCEPT !.status = 405])
    /\ UNCHANGED <<availableVersions, cached, versionsMu, mu, kudosStore, kudosMu>>

\* POST: kudosMu.Lock()
KudosLock(p) ==
    /\ pc[p] = "k_lock"
    /\ CanLock(kudosMu)
    /\ kudosMu' = Lock(kudosMu, p)
    /\ Jump(p, "k_incr", loc[p])
    /\ UNCHANGED <<availableVersions, cached, versionsMu, mu, kudosStore>>

\* Faulty variant of KudosIncrement: the lock is given up with the increment,
\* before the count is read
KudosIncrementThenUnlock(p) ==
    /\ pc[p] = "k_incr"
    /\ kudosStore' = mapStore(kudosStore, loc[p].arg, kudosAt(kudosStore, loc[p].arg) + 1)
    /\ kudosMu' = Unlock(kudosMu, p)
    /\ Jump(p, "k_count", loc[p])
    /\ UNCHANGED <<availableVersions, cached, versionsMu, mu>>

\* kudosStore[username]++
KudosIncrement(p) ==
    /\ pc[p] = "k_incr"
    /\ kudosStore' = mapStore(kudosStore, loc[p].arg, kudosAt(kudosStore, loc[p].arg) + 1)
    /\ Jump(p, "k_count", loc[p])
    /\ UNCHANGED <<availableVersions, cached, versionsMu, mu, kudosMu>>

\* count := kudosStore[username]; kudosMu.Unlock()
KudosCount(p) ==
    /\ pc[p] = "k_count"
    /\ kudosMu' = Unlock(kudosMu, p)
    /\ Jump(p, "k_write", [loc[p] EXCEPT !.count = kudosAt(kudosStore, loc[p].arg)])
    /\ UNCHANGED <<availableVersions, cached, versionsMu, mu, kudosStore>>

\* GET: kudosMu.RLock()
KudosRLock(p) ==
    /\ pc[p] = "k_rlock"
    /\ CanRLock(kudosMu, WaitingForKudosMu)
    /\ kudosMu' = RLock(kudosMu, p)
    /\ Jump(p, "k_read", loc[p])
    /\ UNCHANGED <<availableVersions, cached, versionsMu, mu, kudosStore>>

\* count := kudosStore[username]; kudosMu.RUnlock()
KudosRead(p) ==
    /\ pc[p] = "k_read"
    /\ kudosMu' = RUnlock(kudosMu, p)
    /\ Jump(p, "k_write", [loc[p] EXCEPT !.count = kudosAt(kudosStore, loc[p].arg)])
    /\ UNCHANGED <<availableVersions, cached, versionsMu, mu, kudosStore>>

\* fmt.Fprintf(w, `{"count":%d}`, count)
KudosWrite(p) ==
    /\ pc[p] = "k_write"
    /\ KudosRespond(p, 200, loc[p].count)
    /\ UNCHANGED <<availableVersions, cached, versionsMu, mu, kudosStore, kudosMu>>

\* The server has started; no kudos request has arrived yet
InitKudos ==
    /\ availableVersions = <<>>
    /\ cached = <<>>
    /\ versionsMu = Unlocked
    /\ mu = Unlocked
    /\ kudosStore = <<>>
    /\ kudosMu = Unlocked
    /\ pc = [p \in KudosCallers |-> "idle"]
    /\ loc = [p \in KudosCallers |-> NoLoc]
    /\ ret = NoRet

NextKudos ==
    \E p \in KudosCallers :
        \/ \E method \in KudosMethods, username \in KudosUsers :
               KudosRequest(p, method, username)
        \/ KudosLock(p)
        \/ KudosIncrement(p)
        \/ KudosCount(p)
        \/ KudosRLock(p)
        \/ KudosRead(p)
        \/ KudosWrite(p)

SpecKudos == InitKudos /\ [][NextKudos]_vars

(***************************************************************************)
(* Properties                                                              *)
(***************************************************************************)
IDsOf(versions) == {versions[i].ID : i \in 1..Len(versions)}

SeedCatalog == toVersionInfos(fallbackVersions)

\* The positions at which a network request of the goroutine is in flight
FetchPositions == {"discover", "gr_fetch", "pf_fetch"}

Holders(m) == m.w \cup m.r

\* p leaves position at in this step
Leaves(p, at) == pc[p] = at /\ pc'[p] # at

\* C1: a GetRelease call that finds its version in the map returns the map's
\* Release with found = true and has made no fetch; a call that missed and
\* whose fetch succeeded stores the parsed Release under its version and
\* returns it with found = true after exactly one fetch; and an entry, once
\* in the map, stays in the map, so every later call for it is a hit.
C1_HitNoFetchMissOneFetch ==
    [][\A p \in Clients :
          /\ (Leaves(p, "gr_read") /\ loc[p].version \in DOMAIN cached)
                => /\ ret'.p = p /\ ret'.op = "GetRelease"
                   /\ ret'.found /\ ret'.rel = cached[loc[p].version]
                   /\ ret'.fetches = 0
                   /\ pc'[p] = "idle"
          /\ Leaves(p, "gr_install")
                => /\ loc[p].r \in fetchRelease(loc[p].version)
                   /\ loc[p].version \in DOMAIN cached'
                   /\ cached'[loc[p].version] = loc[p].r
                   /\ ret'.p = p /\ ret'.found /\ ret'.rel = loc[p].r
                   /\ ret'.fetches = 1
          /\ DOMAIN cached \subseteq DOMAIN cached'
      ]_vars

\* C1 witness: a GetRelease call has just returned a hit for a version that
\* only a GetRelease call can have stored (no catalog has listed anything yet).
C1_Witness ==
    /\ ret.op = "GetRelease" /\ ret.found /\ ret.fetches = 0
    /\ ret.version = V1_9
    /\ availableVersions = <<>> /\ pc[Background] = "discover"

\* C2: when the fetch of a GetRelease call fails, the call returns Release{}
\* with found = false and the step changes neither the release map nor the
\* catalog; found = false is returned by no other step; and a call that finds
\* its version missing always issues a fetch (a failure is never remembered).
C2_FetchFailureNotStored ==
    [][/\ \A p \in Clients :
             /\ (Leaves(p, "gr_fetch") /\ pc'[p] = "idle")
                   => /\ ret'.p = p /\ ret'.op = "GetRelease"
                      /\ ~ret'.found /\ ret'.rel = NoRelease
                      /\ ret'.version = loc[p].version
                      /\ cached' = cached
                      /\ availableVersions' = availableVersions
             /\ (Leaves(p, "gr_read") /\ loc[p].version \notin DOMAIN cached)
                   => /\ pc'[p] = "gr_fetch"
                      /\ loc'[p].fetches = loc[p].fetches + 1
       /\ (ret'.op = "GetRelease" /\ ~ret'.found)
             => /\ pc[ret'.p] = "gr_fetch"
                /\ ret'.fetches = 1
      ]_vars

\* C2 witness: a GetRelease call has just returned found = false and its
\* version has no entry in the map.
C2_Witness ==
    /\ ret.op = "GetRelease" /\ ~ret.found
    /\ ret.version \notin DOMAIN cached
    /\ cached # <<>>

\* C3: a goroutine whose network request (version discovery or document
\* retrieval) is in flight holds neither lock, in no mode.
C3_NoLockAcrossFetch ==
    \A p \in Procs :
        pc[p] \in FetchPositions => p \notin Holders(versionsMu) \cup Holders(mu)

\* C3 witness: a GetRelease read of one version has just completed while the
\* background fetch of another version is pending.
C3_Witness ==
    /\ pc[Background] = "pf_fetch"
    /\ loc[Background].versions[loc[Background].i].ID = V1_109
    /\ ret.op = "GetRelease" /\ ret.found /\ ret.fetches = 0
    /\ ret.version = V1_9

\* The catalogs Refresh can install: none yet, the seed list, or the sorted
\* descriptors of one listing
WholeCatalogs == {<<>>, SeedCatalog} \cup discoverResults

\* C4: the list a GetAvailableVersions call returns is the whole catalog of
\* the moment it returns, and the catalog is at every moment one whole
\* installed list (never a mix of an old and a new one); while Refresh holds
\* the catalog's write lock for the swap no reader holds the lock.
C4_WholeCatalogRead ==
    /\ ret.op = "GetAvailableVersions"
          => ret.list = availableVersions /\ ret.list \in WholeCatalogs
    /\ availableVersions \in WholeCatalogs
    /\ versionsMu.w # {} => versionsMu.r = {} /\ versionsMu.w = {Background}
    /\ \A p \in Clients : pc[p] = "gav_read" => pc[Background] # "swap"

\* C4 witness: a reader has just been returned the old catalog, whole, while
\* Refresh waits to swap in a different one.
C4_Witness ==
    /\ ret.op = "GetAvailableVersions" /\ ret.list # <<>>
    /\ pc[Background] = "swap_lock"
    /\ loc[Background].versions # ret.list

\* C5: the catalog is strictly descending by the (major, minor) pair of its
\* identifiers.
C5_CatalogStrictlyDescending ==
    \A i \in 1..(Len(availableVersions) - 1) :
        PairGreater(availableVersions[i].ID, availableVersions[i + 1].ID)

\* C6: every entry of the release map is a Release whose Version is the key it
\* is stored under.
C6_StoredUnderOwnVersion ==
    \A k \in DOMAIN cached : cached[k].Version = k

\* C6 witness: the map holds an entry installed by GetRelease (just now) and
\* one that only Refresh can have installed.
C6_Witness ==
    /\ ret.op = "GetRelease" /\ ret.found /\ ret.fetches = 1
    /\ V1_108 \in DOMAIN cached

\* C7 as claimed: every key of the release map is the ID of a descriptor of
\* the current catalog.
C7_KeysInCurrentCatalog ==
    DOMAIN cached \subseteq IDsOf(availableVersions)

\* C7 as amended: a key enters the release map either by GetRelease, under the
\* requested version whether or not the catalog lists it, or by Refresh, under
\* the ID of one of the first prefetchCount descriptors of the catalog current
\* at that moment.
C7_KeysRequestedOrPrefetched ==
    [][\A k \in DOMAIN cached' \ DOMAIN cached :
          \/ \E p \in Clients : Leaves(p, "gr_install") /\ loc[p].version = k
          \/ /\ pc[Background] = "pf_install"
             /\ k \in IDsOf(SubSeq(availableVersions, 1,
                                   prefetchLimit(availableVersions)))
      ]_vars

\* C7 witness: GetRelease has just stored a version the catalog does not list.
C7_Witness ==
    /\ ret.op = "GetRelease" /\ ret.found /\ ret.fetches = 1
    /\ availableVersions # <<>>
    /\ ret.version \notin IDsOf(availableVersions)
    /\ ret.version \in DOMAIN cached

\* C8: the list GetReleases returns holds, for the catalog the call read
\* (the current catalog unless Refresh replaced it during the call), exactly
\* the cached Releases of the catalog's entries that have at least one
\* contributor: one per such entry, in catalog order, and nothing else.
C8_GetReleasesResult ==
    ret.op \in {"GetReleases", "Refresh"} =>
        LET vs == ret.versions
            wanted == {i \in 1..Len(vs) :
                          /\ vs[i].ID \in DOMAIN cached
                          /\ cached[vs[i].ID].Contributors # <<>>}
        IN  /\ Len(ret.list) = Cardinality(wanted)
            /\ \E f \in [1..Len(ret.list) -> wanted] :
                  /\ \A a, b \in 1..Len(ret.list) : a < b => f[a] < f[b]
                  /\ \A a \in 1..Len(ret.list) : ret.list[a] = cached[vs[f[a]].ID]

\* C8 witness: a request's GetReleases has just returned a non-empty list that
\* leaves out a cached release without contributors and a cached release the
\* catalog does not list.
C8_Witness ==
    /\ ret.op = "GetReleases" /\ Len(ret.list) > 0
    /\ ret.versions = availableVersions
    /\ \E k \in DOMAIN cached :
          k \in IDsOf(ret.versions) /\ cached[k].Contributors = <<>>
    /\ \E k \in DOMAIN cached :
          k \notin IDsOf(ret.versions) /\ cached[k].Contributors # <<>>

\* C9: when discovery failed, the catalog Refresh installs is the previous
\* catalog if that was non-empty and the seed list otherwise; it is non-empty,
\* and the prefetch loop starts over it.
C9_DiscoveryFailureFallback ==
    [][(Leaves(Background, "swap") /\ loc[Background].err) =>
          /\ availableVersions' =
                IF availableVersions = <<>> THEN SeedCatalog ELSE availableVersions
          /\ availableVersions' # <<>>
          /\ pc'[Background] = "pf_fetch"
          /\ loc'[Background].versions = availableVersions'
          /\ loc'[Background].i = 1
      ]_vars

\* C9 witness: discovery failed, a stale catalog (not the seed list) was kept
\* and its prefetch is running.
C9_Witness ==
    /\ loc[Background].err /\ pc[Background] = "pf_fetch"
    /\ availableVersions # SeedCatalog
    /\ V1_108 \in DOMAIN cached

\* C10: after a successful discovery the catalog Refresh has installed is the
\* discovered list, whole and nothing else.
C10_DiscoveredCatalogInstalled ==
    (/\ ~loc[Background].err
     /\ pc[Background] \in {"pf_fetch", "pf_lock", "pf_install", "grs_call"})
        => /\ availableVersions = loc[Background].versions
           /\ availableVersions \in discoverResults

\* C10 witness: a discovered catalog has replaced one that listed v1_109,
\* which is cached and no longer listed.
C10_Witness ==
    /\ ~loc[Background].err /\ pc[Background] = "pf_fetch"
    /\ availableVersions = <<VersionInfo(V1_10001), VersionInfo(V2_0)>>
    /\ V1_109 \in DOMAIN cached

MapReadPositions == {"sc_query", "sc_scan", "gh_scan", "ft_scan"}

\* C12: SearchContributors, GetContributorHistory and IsFirstTimeContributor
\* read the release map only while they hold its read lock, give the lock up
\* only in the step that returns, and while one of them holds it no step
\* changes the map; so what each returns is what the query computes over the
\* map as it is at its return.
C12_OneSnapshot ==
    [][\A p \in Clients :
          /\ pc[p] \in MapReadPositions => p \in mu.r
          /\ p \in mu.r => cached' = cached
          /\ (p \in mu.r /\ p \notin mu'.r) => (ret'.p = p /\ pc'[p] = "idle")
          /\ (ret'.p = p /\ ret'.op = "SearchContributors") =>
                ret'.out \in SearchContributors(cached, ret'.arg)
          /\ (ret'.p = p /\ ret'.op = "GetContributorHistory") =>
                [found |-> ret'.found, out |-> ret'.out]
                    \in GetContributorHistory(cached, ret'.arg)
          /\ (ret'.p = p /\ ret'.op = "IsFirstTimeContributor") =>
                ret'.out = IsFirstTimeContributor(ret'.versions, cached,
                                                  ret'.arg, ret'.version)
      ]_vars

\* C12 witness: a history query is part-way through the map, holding the
\* read lock, while Refresh waits for the write lock to install a release.
C12_Witness ==
    /\ pc[Background] = "pf_lock"
    /\ \E p \in Clients :
          /\ pc[p] = "gh_scan" /\ p \in mu.r
          /\ loc[p].todo # {} /\ loc[p].todo # DOMAIN cached
          /\ loc[p].acc.ReleaseCount > 0

\* C13: while a leaderboard computation runs it has no fetch in flight and
\* the release map does not change, neither by the computation itself nor by
\* a concurrent install: it works on one snapshot of the map.
C13_LeaderboardOneSnapshot ==
    [][\A p \in Clients :
          loc[p].op = "Leaderboard" =>
              /\ pc'[p] # "lb_fetch"
              /\ cached' = cached
      ]_vars

\* The contributor records of a release map: <<version, index>>
recordsOf(m) == UNION {{<<k, j>> : j \in 1..Len(m[k].Contributors)} : k \in DOMAIN m}

\* The lower-cased handle and the PR count of a record
handleAt(m, r) == ToLower(m[r[1]].Contributors[r[2]].GitHubUser)
prCountAt(m, r) == Len(m[r[1]].Contributors[r[2]].PRs)

RECURSIVE sumPRs(_, _)
sumPRs(m, R) ==
    IF R = {} THEN 0
    ELSE LET r == CHOOSE x \in R : TRUE IN prCountAt(m, r) + sumPRs(m, R \ {r})

\* The records of a lower-cased handle, and the releases that hold one
recordsWith(m, lower) == {r \in recordsOf(m) : handleAt(m, r) = lower}
releasesWith(m, lower) == {r[1] : r \in recordsWith(m, lower)}

\* C14: IsFirstTimeContributor(handle, v) is true exactly if no cached release
\* with a (major, minor) strictly smaller than v's holds the handle, letter
\* case ignored.
C14_FirstTimeIffNoEarlierCached ==
    ret.op = "IsFirstTimeContributor" =>
        (ret.out <=> ~\E k \in DOMAIN cached :
                         /\ PairGreater(ret.version, k)
                         /\ k \in releasesWith(cached, ToLower(ret.arg)))

\* C15: for a non-empty query, SearchContributors returns one entry for each
\* lower-cased handle that contains the lower-cased query in some cached
\* release and no other entry; the entry's TotalPRs is the sum of the PR
\* counts of all records with that lower-cased handle.
C15_SearchOneEntryPerHandle ==
    (ret.op = "SearchContributors" /\ ToLower(ret.arg) # <<>>) =>
        LET handles == {h \in {handleAt(cached, r) : r \in recordsOf(cached)} :
                           Contains(h, ToLower(ret.arg))}
        IN  /\ Len(ret.out) = Cardinality(handles)
            /\ \A i \in 1..Len(ret.out) :
                  /\ ToLower(ret.out[i].GitHubUser) \in handles
                  /\ ret.out[i].TotalPRs =
                        sumPRs(cached, recordsWith(cached, ToLower(ret.out[i].GitHubUser)))
            /\ \A h \in handles :
                  \E i \in 1..Len(ret.out) : ToLower(ret.out[i].GitHubUser) = h

\* C15 witness: a search over two cached releases has returned two entries:
\* one merges records written alice and Alice from both releases, the other
\* is the distinct handle ALICE99.
C15_Witness ==
    /\ ret.op = "SearchContributors" /\ Len(ret.out) = 2
    /\ DOMAIN cached = {V1_109, V1_110}
    /\ \E i \in 1..2 : ret.out[i].TotalPRs = 4
    /\ \E i \in 1..2 : ret.out[i].GitHubUser = HAlice99

\* C16: in every SearchContributors entry, ReleaseCount is the number of
\* cached releases that hold the entry's lower-cased handle.
C16_ReleaseCountCountsReleases ==
    ret.op = "SearchContributors" =>
        \A i \in 1..Len(ret.out) :
            ret.out[i].ReleaseCount =
                Cardinality(releasesWith(cached, ToLower(ret.out[i].GitHubUser)))

\* C17: SearchContributors with an empty query returns an empty result.
C17_EmptyQueryEmptyResult ==
    (ret.op = "SearchContributors" /\ ToLower(ret.arg) = <<>>) => ret.out = <<>>

\* C17 witness: the empty query has returned over a map that holds
\* contributors.
C17_Witness ==
    /\ ret.op = "SearchContributors" /\ ret.arg = <<>>
    /\ recordsOf(cached) # {}

\* C18: the SearchContributors result is ordered by TotalPRs, descending.
C18_SearchSortedByTotalPRs ==
    ret.op = "SearchContributors" =>
        \A i \in 1..(Len(ret.out) - 1) : ret.out[i].TotalPRs >= ret.out[i + 1].TotalPRs

\* C18 witness: a result of two entries with different totals
C18_Witness ==
    /\ ret.op = "SearchContributors" /\ Len(ret.out) = 2
    /\ ret.out[1].TotalPRs > ret.out[2].TotalPRs

\* C19: what GetContributorHistory returns is the same for every order in
\* which the release map can be ranged over.
C19_HistoryOrderIndependent ==
    ret.op = "GetContributorHistory" =>
        \A r \in GetContributorHistory(cached, ret.arg) :
            r = [found |-> ret.found, out |-> ret.out]

\* C20: GetContributorHistory returns nil exactly if no cached release holds
\* the handle; otherwise FirstRelease and LatestRelease are the releases with
\* the smallest and the largest (major, minor) among those that hold it,
\* ReleaseCount is their number and TotalPRs the total of the handle's PRs in
\* them.
C20_HistoryFirstLatestTotals ==
    ret.op = "GetContributorHistory" =>
        LET rels == releasesWith(cached, ToLower(ret.arg))
        IN  /\ ret.found <=> rels # {}
            /\ ret.found =>
                  /\ ret.out.FirstRelease \in rels
                  /\ \A k \in rels : ~PairGreater(ret.out.FirstRelease, k)
                  /\ ret.out.LatestRelease \in rels
                  /\ \A k \in rels : ~PairGreater(k, ret.out.LatestRelease)
                  /\ ret.out.ReleaseCount = Cardinality(rels)
                  /\ ret.out.TotalPRs =
                        sumPRs(cached, recordsWith(cached, ToLower(ret.arg)))

\* Entry a comes strictly before entry b in the view a tab parameter selects
rankedBefore(tab, a, b) ==
    IF tab = "releases"
    THEN a.Releases > b.Releases \/ (a.Releases = b.Releases /\ a.PRCount > b.PRCount)
    ELSE a.PRCount > b.PRCount \/ (a.PRCount = b.PRCount /\ a.Releases > b.Releases)

\* C21: the entries of a rendered leaderboard are ordered by (PRCount
\* descending, release count descending) unless the tab parameter is
\* "releases", and by (release count descending, PRCount descending) if it
\* is: no entry comes after one it should strictly precede; the page reports
\* the tab "prs" for every parameter other than "releases".
C21_LeaderboardOrder ==
    (ret.op = "Leaderboard" /\ ~ret.out.Loading) =>
        LET e == ret.out.Entries
        IN  /\ ret.out.Tab = IF ret.arg = "releases" THEN "releases" ELSE "prs"
            /\ \A i, j \in 1..Len(e) : i < j => ~rankedBefore(ret.arg, e[j], e[i])

\* C21 witness: a leaderboard asked for with an empty tab parameter has been
\* rendered, and two neighbours with the same PRCount are ordered by their
\* release counts.
C21_Witness ==
    /\ ret.op = "Leaderboard" /\ ~ret.out.Loading /\ ret.arg = ""
    /\ \E i \in 1..(Len(ret.out.Entries) - 1) :
           /\ ret.out.Entries[i].PRCount = ret.out.Entries[i + 1].PRCount
           /\ ret.out.Entries[i].Releases > ret.out.Entries[i + 1].Releases

\* C22: a rendered leaderboard has min(N, 50) entries, N being the number of
\* handles the request aggregated; each entry carries the aggregated counts of
\* a handle of its own, no handle left out should strictly precede an entry
\* shown, and the entry at position i has Rank i.
C22_LeaderboardCutAndRanked ==
    [][\A p \in Clients :
          (pc[p] = "lb_rank" /\ pc'[p] = "idle") =>
              LET statsMap == loc[p].acc
                  N == Cardinality(DOMAIN statsMap)
                  e == ret'.out.Entries
                  shown == {e[i].GitHubUser : i \in 1..Len(e)}
                  counts(h) == [PRCount |-> statsMap[h].PRCount,
                                Releases |-> Cardinality(statsMap[h].Releases)]
              IN  /\ Len(e) = IF N < 50 THEN N ELSE 50
                  /\ Cardinality(shown) = Len(e)
                  /\ shown \subseteq DOMAIN statsMap
                  /\ \A i \in 1..Len(e) :
                        /\ e[i].Rank = i
                        /\ e[i].PRCount = counts(e[i].GitHubUser).PRCount
                        /\ e[i].Releases = counts(e[i].GitHubUser).Releases
                        /\ \A h \in DOMAIN statsMap \ shown :
                              ~rankedBefore(ret'.arg, counts(h), e[i])
      ]_vars

\* C22 witness: a leaderboard over two cached releases that name 51 handles
\* between them has been rendered with 50 entries.
C22_Witness ==
    /\ ret.op = "Leaderboard" /\ Len(ret.out.Entries) = 50
    /\ {V1_111, V1_112} \subseteq DOMAIN cached \cap IDsOf(ret.versions)
    /\ Len(cached[V1_111].Contributors) + Len(cached[V1_112].Contributors) = 51

\* C23: a rendered leaderboard has one entry per lower-cased handle: no two
\* entries' handles differ only in letter case, and an entry's release count
\* is the number of the catalog's cached releases that hold its handle,
\* letter case ignored.
C23_LeaderboardMergesByLowerCase ==
    (ret.op = "Leaderboard" /\ ~ret.out.Loading) =>
        LET e == ret.out.Entries
            m == [k \in DOMAIN cached \cap IDsOf(ret.versions) |-> cached[k]]
        IN  /\ \A i, j \in 1..Len(e) :
                  i # j => ToLower(e[i].GitHubUser) # ToLower(e[j].GitHubUser)
            /\ \A i \in 1..Len(e) :
                  e[i].Releases =
                      Cardinality(releasesWith(m, ToLower(e[i].GitHubUser)))

\* C24: whenever discovery has answered, its result holds exactly one
\* descriptor {ID: v<major>_<minor>, Display: <major>.<minor>} for each
\* well-formed version file name of the listing it was given and nothing
\* else, and it is strictly descending by (major, minor).
C24_DiscoverOnePerFileDescending ==
    \A p \in Procs :
        (pc[p] = "swap_lock" /\ ~loc[p].err) =>
            LET versions == loc[p].versions
            IN  /\ \E l \in Listings :
                      LET names == {l[i] : i \in 1..Len(l)}
                          ids == {SubSeq(n, 1, Len(n) - Len(MdSuffix)) :
                                     n \in {x \in names : versionFileMatch(x) # <<>>}}
                      IN  /\ Len(versions) = Cardinality(ids)
                          /\ IDsOf(versions) = ids
                /\ \A i \in 1..Len(versions) :
                      versions[i].Display =
                          TrimPrefix(ReplaceFirst(versions[i].ID, "_", "."), <<"v">>)
                /\ \A i \in 1..(Len(versions) - 1) :
                      PairGreater(versions[i].ID, versions[i + 1].ID)

\* The response bodies whose pull-request section holds the one contributor
\* line of C25 and no other contributor or sub-item line
OrgRepoDocs ==
    {md \in ParseDocs :
        \E i, j \in 1..Len(md) :
            /\ i < j /\ md[i].kind = "prsection" /\ md[j] = LineOrgRepo
            /\ \A k \in 1..Len(md) :
                  k \notin {i, j} => md[k].kind \in {"text", "repo"}}

\* C25: parsing a document whose pull-request section holds the line
\* "* [@alice (Alice A.)](https://github.com/alice): fixed bug [PR #42](https://github.com/org/repo/pull/42)"
\* gives exactly one Contributor, with handle alice and display name
\* "Alice A.", holding exactly one PR with title "fixed bug", number "42",
\* repo "repo" and a URL ending in /pull/42.
C25_ParsesContributorLine ==
    (ret.op = "parseMarkdown" /\ ret.arg \in OrgRepoDocs) =>
        /\ Len(ret.rel.Contributors) = 1
        /\ ret.rel.Contributors[1].GitHubUser = HAlice
        /\ ret.rel.Contributors[1].Name = NAliceA
        /\ Len(ret.rel.Contributors[1].PRs) = 1
        /\ ret.rel.Contributors[1].PRs[1].Title = <<Txt("fixed bug")>>
        /\ ret.rel.Contributors[1].PRs[1].Number = "42"
        /\ ret.rel.Contributors[1].PRs[1].Repo = "repo"
        /\ HasSuffix(ret.rel.Contributors[1].PRs[1].URL, <<"/pull/", "42">>)

C27_BackgroundRefreshesForever ==
    /\ (pc[Background] = "discover" /\ loc[Background].op = "Refresh"
           /\ loc[Background].fetches = 0 /\ cached = <<>>)
    /\ [][\A p \in Procs :
             (loc'[p].op = "Refresh" /\ loc[p].op # "Refresh") =>
                 /\ p = Background
                 /\ \A q \in Procs : loc[q].op # "Refresh"
                 /\ pc'[p] = "discover"]_vars
    /\ []<>(<<RefreshCall(Background)>>_vars)

\* C27 witness: a Refresh has installed its catalog and returned, and the
\* goroutine is inside a later Refresh.
C27_Witness ==
    /\ pc[Background] = "discover" /\ loc[Background].op = "Refresh"
    /\ availableVersions # <<>>

\* A Refresh call of the background goroutine has just returned
RefreshReturned == ret.p = Background /\ ret.op = "Refresh"

\* C28: in every fair execution each Refresh that has begun returns, whatever
\* its discovery and its fetches answer: after a failed discovery and after a
\* failed or successful fetch alike the call goes on to its return, and after
\* a cycle in which discovery failed the goroutine begins a later cycle.
C28_RefreshAlwaysReturns ==
    /\ (loc[Background].op = "Refresh") ~> RefreshReturned
    /\ (pc[Background] = "discover") ~> (pc[Background] \in {"has_rlock", "swap_lock"})
    /\ (pc[Background] = "has_rlock") ~> RefreshReturned
    /\ (pc[Background] = "pf_fetch") ~> RefreshReturned
    /\ (RefreshReturned /\ availableVersions = <<>>) ~> (pc[Background] = "discover")
    /\ (loc[Background].err) ~> (pc[Background] = "discover" /\ ~loc[Background].err)

\* C28 witness: a Refresh whose discovery failed and whose five fetches all
\* failed has returned: the catalog is the seed list and the map is empty.
C28_Witness ==
    /\ RefreshReturned
    /\ availableVersions = SeedCatalog
    /\ cached = <<>>
    /\ ret.fetches = prefetchCount

\* C29: no step removes a key of the release map; a step that changes the
\* map is the store of a GetRelease or of a Refresh, and it sets exactly one
\* entry, the one of the version being stored, to the whole Release that
\* call's fetch parsed, leaving every other entry as it was.
C29_NoEviction ==
    [][/\ DOMAIN cached \subseteq DOMAIN cached'
       /\ cached' # cached =>
              \E p \in Procs :
                  /\ pc[p] \in {"gr_install", "pf_install"} /\ pc'[p] # pc[p]
                  /\ loc[p].op \in {"GetRelease", "Refresh"}
                  /\ LET k == IF pc[p] = "gr_install" THEN loc[p].version
                               ELSE loc[p].versions[loc[p].i].ID
                     IN  /\ DOMAIN cached' = DOMAIN cached \cup {k}
                         /\ cached'[k] = loc[p].r
                         /\ cached'[k] \in fetchRelease(k)
                         /\ \A j \in DOMAIN cached \ {k} : cached'[j] = cached[j]
      ]_vars

\* C29 witness: the map holds two entries, one stored by a request and one
\* by a prefetch, though the catalog installed since lists neither.
C29_Witness ==
    /\ {V1_108, V1_9} \subseteq DOMAIN cached
    /\ availableVersions # <<>>
    /\ IDsOf(availableVersions) \cap DOMAIN cached = {}

\* C30: every GetRelease call that reads a miss goes on to a fetch of its
\* own, whoever else is fetching the same version; the call that holds the
\* write lock stores its own Release under its version whether or not the
\* map has got an entry meanwhile; and the entry of a version only changes
\* in the store of a GetRelease or a Refresh, to the whole Release that call
\* parsed: so it is always the Release of the last writer.
C30_NoDedupLastWriterWins ==
    [][/\ \A p \in RaceCallers :
             /\ (pc[p] = "gr_read" /\ pc'[p] # "gr_read"
                     /\ loc[p].version \notin DOMAIN cached) =>
                    /\ pc'[p] = "gr_fetch"
                    /\ loc'[p].fetches = loc[p].fetches + 1
             /\ (pc[p] = "gr_install" /\ pc'[p] # "gr_install") =>
                    /\ loc[p].version \in DOMAIN cached'
                    /\ cached'[loc[p].version] = loc[p].r
                    /\ loc[p].r \in fetchRelease(loc[p].version)
                    /\ ret'.rel = loc[p].r /\ ret'.found /\ ret'.fetches = 1
       /\ \A k \in DOMAIN cached' :
             (k \notin DOMAIN cached \/ cached'[k] # cached[k]) =>
                 \E p \in DOMAIN pc :
                     /\ pc[p] \in {"gr_install", "pf_install"} /\ pc'[p] # pc[p]
                     /\ mu.w = {p}
                     /\ cached'[k] = loc[p].r
                     /\ loc[p].r \in fetchRelease(k)
      ]_vars

\* C30 witness: two calls for the same version have both read a miss and
\* fetched; the map has got an entry for the version meanwhile; one call
\* holds the write lock and is about to store a different Release over it,
\* and the other waits for the lock to store its own after that.
C30_Witness ==
    \E p, q \in RaceCallers :
        /\ pc[p] = "gr_install" /\ pc[q] = "gr_lock"
        /\ loc[q].version = loc[p].version
        /\ loc[p].version \in DOMAIN cached
        /\ cached[loc[p].version] # loc[p].r
        /\ loc[q].r # loc[p].r

\* The pull-request section of a text: the lines after the first
\* "### Pull Requests" line and before the first "## " line that follows it
sectionStart(md) ==
    IF \E i \in 1..Len(md) : md[i].kind = "prsection"
    THEN CHOOSE i \in 1..Len(md) :
             md[i].kind = "prsection" /\ \A j \in 1..(i - 1) : md[j].kind # "prsection"
    ELSE Len(md) + 1

sectionEnd(md) ==
    LET from == sectionStart(md) + 1
    IN  IF \E i \in from..Len(md) : md[i].kind = "h2"
        THEN CHOOSE i \in from..Len(md) :
                 md[i].kind = "h2" /\ \A j \in from..(i - 1) : md[j].kind # "h2"
        ELSE Len(md) + 1

sectionOf(md) == SubSeq(md, sectionStart(md) + 1, sectionEnd(md) - 1)

\* The positions of the contributor lines of a section, in order
contribPositions(sec) ==
    SelectSeq([i \in 1..Len(sec) |-> i], LAMBDA i : sec[i].kind = "contrib")

\* The PR links of the lines of a section
sectionLinks(sec) ==
    UNION {{sec[k].items[l] : l \in {x \in 1..Len(sec[k].items) :
                                         IsLink(sec[k].items[x])}} :
           k \in 1..Len(sec)}

\* C31: the contributors and PRs of a parse come only from the lines after
\* the first "### Pull Requests" line and before the first "## " line that
\* follows: the lines before the section are ignored, the scan stops for
\* good at that heading, and a later "### Pull Requests" section adds
\* nothing.
C31_OnlyTheFirstSection ==
    ret.op = "parseMarkdown" =>
        LET sec == sectionOf(ret.arg)
            at  == contribPositions(sec)
            cs  == ret.rel.Contributors
        IN  /\ Len(cs) = Len(at)
            /\ \A n \in 1..Len(cs) : cs[n].GitHubUser = sec[at[n]].user
            /\ \A n \in 1..Len(cs) : \A m \in 1..Len(cs[n].PRs) :
                  \E tok \in sectionLinks(sec) : tok.number = cs[n].PRs[m].Number
            /\ cs = parseMarkdown(ret.version, <<Line("prsection")>> \o sec).Contributors

\* C31 witness: a text with a contributor line before the section, a
\* section of bob and one sub-item, a "## " heading and a second section
\* with another contributor has been parsed: bob alone is returned, with
\* the one PR.
C31_Witness ==
    /\ ret.op = "parseMarkdown"
    /\ Len(ret.arg) = 8 /\ ret.arg[5].kind = "h2" /\ ret.arg[6].kind = "prsection"
    /\ ret.arg[1] = LineOrgRepo /\ ret.arg[7] = LineOrgRepo
    /\ Len(ret.rel.Contributors) = 1
    /\ ret.rel.Contributors[1].GitHubUser = HBob
    /\ Len(ret.rel.Contributors[1].PRs) = 1

\* The PR links of the sub-item lines from line k of a section up to the
\* next contributor line or repo-section heading
RECURSIVE subLinksFrom(_, _)
subLinksFrom(sec, k) ==
    IF k > Len(sec) \/ sec[k].kind \in {"contrib", "repo"} THEN <<>>
    ELSE (IF sec[k].kind = "sub" THEN linksOf(sec[k].items) ELSE <<>>)
         \o subLinksFrom(sec, k + 1)

\* C32: inside the section every contributor line appends one Contributor,
\* in document order and without merging a repeated handle; its display
\* name is the parenthetical part of the link text if there is one, else
\* the handle; a sub-item line appends its PR links to the contributor
\* started last and creates no contributor.
C32_ContributorPerLineSubItemsAppend ==
    ret.op = "parseMarkdown" =>
        LET sec == sectionOf(ret.arg)
            at  == contribPositions(sec)
            cs  == ret.rel.Contributors
        IN  /\ Len(cs) = Len(at)
            /\ \A n \in 1..Len(cs) :
                  LET line  == sec[at[n]]
                      links == linksOf(line.items) \o subLinksFrom(sec, at[n] + 1)
                  IN  /\ cs[n].GitHubUser = line.user
                      /\ cs[n].Name = IF line.paren # <<>> THEN line.paren[1]
                                      ELSE line.user
                      /\ Len(cs[n].PRs) = Len(links)
                      /\ \A m \in 1..Len(links) :
                            /\ cs[n].PRs[m].Number = links[m].number
                            /\ cs[n].PRs[m].URL = LinkURL(links[m])

\* C32 witness: a section naming alice twice, with two sub-items after the
\* first line, has been parsed: two Contributors of handle alice and display
\* name "Alice A.", the first with three PRs, the second with one.
C32_Witness ==
    /\ ret.op = "parseMarkdown"
    /\ Len(ret.arg) = 7 /\ ret.arg[2] = LineOrgRepo /\ ret.arg[7] = LineOrgRepo
    /\ ret.arg[4] = LineSub /\ ret.arg[6] = LineSub
    /\ Len(ret.rel.Contributors) = 2
    /\ \A n \in 1..2 : /\ ret.rel.Contributors[n].GitHubUser = HAlice
                       /\ ret.rel.Contributors[n].Name = NAliceA
    /\ Len(ret.rel.Contributors[1].PRs) = 3
    /\ Len(ret.rel.Contributors[2].PRs) = 1

\* The last contributor line or repo-section heading before line k of a
\* section; 0 if there is none
lastHeadBefore(sec, k) ==
    LET heads == {j \in 1..(k - 1) : sec[j].kind \in {"contrib", "repo"}}
    IN  IF heads = {} THEN 0 ELSE CHOOSE j \in heads : \A i \in heads : i <= j

\* The lines of a section whose PR links count: the contributor lines, and
\* the sub-items that follow a contributor line with no repo-section
\* heading in between
countedLines(sec) ==
    {k \in 1..Len(sec) :
        \/ sec[k].kind = "contrib"
        \/ /\ sec[k].kind = "sub"
           /\ lastHeadBefore(sec, k) # 0
           /\ sec[lastHeadBefore(sec, k)].kind = "contrib"}

RECURSIVE linkCount(_, _)
linkCount(sec, S) ==
    IF S = {} THEN 0
    ELSE LET k == CHOOSE x \in S : TRUE
         IN  Len(linksOf(sec[k].items)) + linkCount(sec, S \ {k})

RECURSIVE prCount(_, _)
prCount(cs, n) == IF n = 0 THEN 0 ELSE Len(cs[n].PRs) + prCount(cs, n - 1)

\* C33: a repo-section heading resets the current contributor to none: the
\* sub-items between it and the next contributor line add no PR to any
\* contributor, and the heading creates nothing.
C33_RepoHeadingResetsCurrent ==
    ret.op = "parseMarkdown" =>
        LET sec == sectionOf(ret.arg)
            cs  == ret.rel.Contributors
        IN  /\ Len(cs) = Cardinality({k \in 1..Len(sec) : sec[k].kind = "contrib"})
            /\ prCount(cs, Len(cs)) = linkCount(sec, countedLines(sec))

\* C33 witness: a section of alice, a sub-item, a repo-section heading, a
\* sub-item, bob with two PRs and a sub-item with two links has been parsed:
\* alice has two PRs, not three, and bob has four.
C33_Witness ==
    /\ ret.op = "parseMarkdown"
    /\ Len(ret.arg) = 7 /\ ret.arg[4].kind = "repo"
    /\ ret.arg[3] = LineSub /\ ret.arg[5] = LineSub
    /\ Len(ret.rel.Contributors) = 2
    /\ Len(ret.rel.Contributors[1].PRs) = 2
    /\ Len(ret.rel.Contributors[2].PRs) = 4

\* The title the text before position l of a line gives: trimmed, with a
\* leading ": " or ":" stripped
titleBefore(text, l) ==
    TrimSpace(TrimPrefix(TrimPrefix(TrimSpace(SubSeq(text, 1, l - 1)),
                                    <<Colon, Space>>), <<Colon>>))

\* The positions of the PR links of a line, in order
linkPositions(text) ==
    SelectSeq([i \in 1..Len(text) |-> i], LAMBDA i : IsLink(text[i]))

\* The numbers and titles of the PR records of one line, each link
\* occurrence read at its own position
recordsOfLine(text) ==
    LET at == linkPositions(text)
    IN  [i \in 1..Len(at) |->
            [Number |-> text[at[i]].number, Title |-> titleBefore(text, at[i])]]

RECURSIVE subRecordsFrom(_, _)
subRecordsFrom(sec, k) ==
    IF k > Len(sec) \/ sec[k].kind \in {"contrib", "repo"} THEN <<>>
    ELSE (IF sec[k].kind = "sub" THEN recordsOfLine(sec[k].items) ELSE <<>>)
         \o subRecordsFrom(sec, k + 1)

\* C34: every PR link of a contributor or sub-item line becomes its own PR
\* record, in line order, titled by the trimmed text before that occurrence
\* of the link on its line, a leading ": " or ":" stripped, and by the empty
\* title if no text precedes it; also for the second and later links of a
\* line and for a link text that occurs twice on it.
C34_TitlePerLinkOccurrence ==
    ret.op = "parseMarkdown" =>
        LET sec == sectionOf(ret.arg)
            at  == contribPositions(sec)
            cs  == ret.rel.Contributors
        IN  /\ Len(cs) = Len(at)
            /\ \A n \in 1..Len(cs) :
                  [m \in 1..Len(cs[n].PRs) |->
                      [Number |-> cs[n].PRs[m].Number, Title |-> cs[n].PRs[m].Title]]
                  = recordsOfLine(sec[at[n]].items) \o subRecordsFrom(sec, at[n] + 1)

\* The locks goroutine p holds
HeldBy(p) ==
    {m \in {"mu", "versionsMu"} :
        p \in Holders(IF m = "mu" THEN mu ELSE versionsMu)}

\* The positions at which a goroutine calls Lock or RLock next
AcquireAt ==
    {"idle", "grs_call", "grs_rlock", "gr_lock", "has_rlock", "stale_rlock",
     "swap_lock", "pf_lock", "ft_rlock"}

\* The operation goroutine p has begun has not returned
Started(p) == pc[p] # (IF p = Background THEN "tick" ELSE "idle")

\* C35: no operation holds the catalog lock and the release-map lock at
\* once, a lock is only taken by a goroutine that holds none, and under fair
\* scheduling every operation that has begun (GetAvailableVersions,
\* GetRelease, GetReleases, IsFirstTimeContributor, SearchContributors,
\* GetContributorHistory, Refresh) returns.
C35_NoDeadlock ==
    /\ [](\A p \in Procs :
             /\ Cardinality(HeldBy(p)) <= 1
             /\ pc[p] \in AcquireAt => HeldBy(p) = {})
    /\ [][\A p \in Procs : (HeldBy(p)' \ HeldBy(p)) # {} => HeldBy(p) = {}]_vars
    /\ \A p \in Procs : []<>(~Started(p))

\* C35 witness: the background goroutine waits in versionsMu.Lock() while a
\* request goroutine inside IsFirstTimeContributor holds versionsMu for
\* reading.
C35_Witness ==
    /\ pc[Background] = "swap_lock"
    /\ \E p \in Clients : pc[p] = "ft_versions" /\ HeldBy(p) = {"versionsMu"}

\* The operations that only read
ReadOnlyOps ==
    {"GetAvailableVersions", "GetReleases", "SearchContributors",
     "GetContributorHistory", "IsFirstTimeContributor"}

\* C36: the catalog is changed by Refresh only, the release map by Refresh
\* and by a GetRelease that missed only: a step of GetAvailableVersions,
\* GetReleases, SearchContributors, GetContributorHistory,
\* IsFirstTimeContributor or of a GetRelease that hit changes neither.
C36_OnlyRefreshAndMissWrite ==
    [][/\ availableVersions' # availableVersions =>
             Leaves(Background, "swap")
       /\ cached' # cached =>
             \/ Leaves(Background, "pf_install")
             \/ \E p \in Clients : Leaves(p, "gr_install")
       /\ \A p \in Clients :
             (pc'[p] # pc[p] /\ (loc[p].op \in ReadOnlyOps \/ loc'[p].op \in ReadOnlyOps))
                 => UNCHANGED <<availableVersions, cached>>
       /\ \A p \in Clients :
             (ret'.p = p /\ ret'.op = "GetRelease" /\ ret'.fetches = 0)
                 => UNCHANGED <<availableVersions, cached>>]_vars
\* C36 witness: a SearchContributors call has returned while the catalog
\* and the release map are both filled.
C36_Witness ==
    /\ ret.op = "SearchContributors"
    /\ availableVersions # <<>>
    /\ cached # <<>>
\* C37: over the same release map, the SearchContributors entry of a
\* lower-cased handle reports the TotalPRs and the ReleaseCount that
\* GetContributorHistory reports for the handle.
C37_SearchAgreesWithHistory ==
    (ret.op = "GetContributorHistory" /\ ret.found) =>
        \A res \in SearchContributors(cached, ToLower(ret.arg)) :
            \A i \in 1..Len(res) :
                ToLower(res[i].GitHubUser) = ToLower(ret.arg) =>
                    /\ res[i].TotalPRs = ret.out.TotalPRs
                    /\ res[i].ReleaseCount = ret.out.ReleaseCount

RECURSIVE sumLens(_, _)
sumLens(f, S) ==
    IF S = {} THEN 0
    ELSE LET k == CHOOSE x \in S : TRUE IN Len(f[k]) + sumLens(f, S \ {k})

\* The parts of C38 that do not compare FirstRelease with LatestRelease
historyCounts(h, m, username) ==
    LET keys == DOMAIN h.PRsByRelease
    IN  /\ h.TotalPRs = sumLens(h.PRsByRelease, keys)
        /\ \A k \in keys :
              /\ k \in DOMAIN m
              /\ \E i \in 1..Len(m[k].Contributors) :
                    /\ ToLower(m[k].Contributors[i].GitHubUser) = ToLower(username)
                    /\ Len(m[k].Contributors[i].PRs) >= 1
        /\ h.ReleaseCount >= Cardinality(keys)
        /\ h.ReleaseCount >= 1

\* C38: in every history GetContributorHistory returns, TotalPRs is the sum
\* of the lengths of the PRsByRelease values, every PRsByRelease key is a
\* cached version that holds the handle with at least one PR, ReleaseCount
\* is at least the number of keys and at least 1, and FirstRelease is not
\* newer than LatestRelease.
C38_HistoryWellFormed ==
    (ret.op = "GetContributorHistory" /\ ret.found) =>
        /\ historyCounts(ret.out, cached, ret.arg)
        /\ ~PairGreater(ret.out.FirstRelease, ret.out.LatestRelease)
\* The POST requests for a username
postsFor(username) ==
    {p \in DOMAIN pc : /\ loc[p].op = "KudosHandler" /\ loc[p].method = "POST"
                       /\ loc[p].arg = username}

\* Those that have incremented the counter, and those answered with a count
postsCounted(username) ==
    {p \in postsFor(username) :
        pc[p] \in {"k_count", "k_write"} \/ (pc[p] = "responded" /\ loc[p].status = 200)}

postsAnswered(username) ==
    {p \in postsFor(username) : pc[p] = "responded" /\ loc[p].status = 200}

\* C39: the kudos counter of a user loses no increment: the stored count is
\* the number of POST requests for the username that have incremented it;
\* the POST responses carry different values, which are 1..n once n POSTs are
\* answered and none is between its increment and its response; no step of
\* a GET, and no request with an invalid username or another method,
\* changes a counter.
C39_KudosCountsEveryPost ==
    /\ [](\A username \in KudosUsers :
             /\ kudosAt(kudosStore, username) = Cardinality(postsCounted(username))
             /\ \A p, q \in postsAnswered(username) :
                   p # q => loc[p].count # loc[q].count
             /\ postsCounted(username) = postsAnswered(username) =>
                   {loc[p].count : p \in postsAnswered(username)}
                       = 1..Cardinality(postsAnswered(username))
             /\ (username = <<>> \/ ~validUser(username)) =>
                   username \notin DOMAIN kudosStore)
    /\ [][\A p \in DOMAIN pc :
             (pc'[p] # pc[p] /\ (loc'[p].method # "POST" \/ loc'[p].status = 400))
                 => kudosStore' = kudosStore]_vars

\* C39 witness: two POSTs for alice have been answered 1 and 2, a GET for
\* alice that read between them has been answered 1, and the stored count
\* is 2.
C39_Witness ==
    /\ kudosAt(kudosStore, HAlice) = 2
    /\ \E p, q, g \in DOMAIN pc :
          /\ {p, q} \subseteq postsAnswered(HAlice)
          /\ loc[p].count = 1 /\ loc[q].count = 2
          /\ loc[g].method = "GET" /\ loc[g].arg = HAlice
          /\ pc[g] = "responded" /\ loc[g].status = 200 /\ loc[g].count = 1

=============================================================================
